---- MODULE Spec2Model ----
(***************************************************************************)
(* FluxControl rate-limiting engine: the three admission algorithms of     *)
(* server/rate-limiter.ts running against the in-memory store of           *)
(* server/storage.ts.                                                      *)
(*                                                                         *)
(* Every `await` of the TypeScript code is a scheduling point.  The code   *)
(* between two awaits runs to completion on the single JavaScript thread,  *)
(* so each action below is one such run.  The storage methods contain no   *)
(* await themselves: their body runs synchronously at the call, and only   *)
(* the caller's `await` on the returned promise yields.                    *)
(*                                                                         *)
(* A specification chooses the schedule: in the sequential ones a caller   *)
(* awaits each call before anything else is done, so that the runs of a    *)
(* call follow one another with nothing in between; in the concurrent ones *)
(* calls and the other operations interleave at every await.               *)
(***************************************************************************)
EXTENDS Integers, Sequences, FiniteSets, TLC

VARIABLES
    clock,         \* the wall clock read by Date.now() / new Date(), in ms
    configs,       \* MemStorage.configs, in insertion order
    currentId,     \* MemStorage.currentId, the next id handed out to a
                   \* policy, a state record or a violation
    installed,     \* the policies stored so far, the constructor's first:
                   \* a record kept beside the store, like hist
    activeLimits,  \* MemStorage.activeLimits: clientId -> ActiveRateLimit
    requestTimes,  \* SlidingWindowLimiter.requestTimes: clientId -> number[]
    violations,    \* MemStorage.violations, newest first
    stats,         \* MemStorage.stats (totalRequests, rateLimitedRequests)
    calls,         \* the checkRateLimit invocations in flight
    started,       \* number of checkRateLimit invocations begun so far
    hist,          \* the decisions returned to callers, oldest first
    adminBlocked,  \* clientId -> the resetTime of the record that POST
                   \* /api/block marked, under the current policy
    before,        \* slot -> the tables as the invocation in the slot found
                   \* them when it began: a record kept beside the store
    users,         \* MemStorage.users: id -> User
    apiKeys,       \* MemStorage.apiKeys: keyHash -> ApiKey
    usageMetrics,  \* MemStorage.usageMetrics, oldest first
    probe          \* the argument a pure function of the service is applied
                   \* to and, once applied, the value it returned

\* The tables of the accounts: users, API keys and usage records.
accounts == <<users, apiKeys, usageMetrics>>

\* The variables of the service.
service == <<clock, configs, currentId, installed, activeLimits, requestTimes, violations, stats,
             calls, started, hist, adminBlocked, before, accounts>>

vars == <<clock, configs, currentId, installed, activeLimits, requestTimes, violations, stats,
          calls, started, hist, adminBlocked, before, accounts, before, accounts, probe>>

----------------------------------------------------------------------------
(* Bounds of the model *)

StartClock == 120000
TickMs == 500
MaxElapsed == 2000
MaxRequests == 4
MaxUpdates == 2
MaxSwapRequests == 4
MaxConcRequests == 2
MaxConcUpdates == 1
MaxSwapElapsed == 1000
MaxConcElapsed == 500
MaxInflight == 2
MaxCapRequests == 102
MaxCapElapsed == 500
MaxFaultRequests == 3
MaxFaultElapsed == 500
MaxRaceRequests == 2
MaxRaceUpdates == 1
MaxRaceElapsed == 1000
MaxOverlapRequests == 3
MaxOverlapElapsed == 1000
MaxHttpRequests == 3
MaxHttpElapsed == 1000
MaxLiveRequests == 3
MaxLiveRequestElapsed == 30000
MaxLiveElapsed == 120000
MaxStoreRequests == 3
MaxStoreUpdates == 1
MaxStoreElapsed == 500
MaxAccountRecords == 1
MaxBlockRequests == 4
MaxBlockUpdates == 2
MaxBlockElapsed == 500

(* Program constants *)

DefaultWindowMs == 60000
DefaultRequestLimit == 100
MaxViolations == 100
CleanupIntervalMs == 30000

Clients == {"a", "b"}
SwapClients == {"a"}
Endpoints == {"/api/protected/test"}
Procs == 1..MaxInflight

Algorithms == {"fixed-window", "sliding-window", "token-bucket"}
Limits == {1, 2}
TimeWindows == {<<"1", "s">>, <<"2", "s">>}
ActiveFlags == {TRUE, FALSE}

----------------------------------------------------------------------------
(* Numbers: the integers, and NaN *)

\* The value that stands for NaN: no time, count or window of a run comes
\* near it. Whatever is computed from NaN is NaN and every comparison with
\* NaN is false; new Date(NaN) is an Invalid Date, whose getTime() is NaN.
NaN == -2147483647

\* a + b
Plus(a, b) == IF a = NaN \/ b = NaN THEN NaN ELSE a + b

\* a - b
Minus(a, b) == IF a = NaN \/ b = NaN THEN NaN ELSE a - b

\* a < b
Less(a, b) == a # NaN /\ b # NaN /\ a < b

\* a <= b
AtMost(a, b) == a # NaN /\ b # NaN /\ a <= b

\* a > b
Greater(a, b) == a # NaN /\ b # NaN /\ a > b

\* a >= b
AtLeast(a, b) == a # NaN /\ b # NaN /\ a >= b

\* Math.floor in the place of Math.ceil.
CeilDivRoundingDown(n, d) == IF n = NaN THEN NaN ELSE n \div d

\* Math.ceil(n / d) for d > 0 and any n.
CeilDiv(n, d) == IF n = NaN THEN NaN ELSE -((-n) \div d)

\* Math.floor(n / d) for integers n and d # 0.
FloorDiv(n, d) == IF d > 0 THEN n \div d ELSE (-n) \div (-d)

\* Math.floor(n / d) * d for an integer n: n / 0 is an infinity or NaN, and
\* its product with 0 is NaN.
FloorToMultiple(n, d) == IF d = NaN \/ d = 0 THEN NaN ELSE FloorDiv(n, d) * d

----------------------------------------------------------------------------
(* parseTimeWindow *)

Digits == {"0", "1", "2", "3", "4", "5", "6", "7", "8", "9"}

HexDigits ==
    Digits \cup {"a", "b", "c", "d", "e", "f", "A", "B", "C", "D", "E", "F"}

DigitVal(ch) ==
    CASE ch = "0" -> 0 [] ch = "1" -> 1 [] ch = "2" -> 2 [] ch = "3" -> 3
      [] ch = "4" -> 4 [] ch = "5" -> 5 [] ch = "6" -> 6 [] ch = "7" -> 7
      [] ch = "8" -> 8 [] ch = "9" -> 9
      [] ch \in {"a", "A"} -> 10 [] ch \in {"b", "B"} -> 11
      [] ch \in {"c", "C"} -> 12 [] ch \in {"d", "D"} -> 13
      [] ch \in {"e", "E"} -> 14 [] ch \in {"f", "F"} -> 15

\* The digits of a radix.
DigitsOf(radix) == IF radix = 16 THEN HexDigits ELSE Digits

\* Length of the longest prefix of s made of digits of the radix.
RECURSIVE DigitPrefixLen(_, _)
DigitPrefixLen(s, radix) ==
    IF s = <<>> \/ Head(s) \notin DigitsOf(radix) THEN 0
    ELSE 1 + DigitPrefixLen(Tail(s), radix)

RECURSIVE DigitsValue(_, _, _)
DigitsValue(s, n, radix) ==
    IF n = 0 THEN 0 ELSE radix * DigitsValue(s, n - 1, radix) + DigitVal(s[n])

\* The white space and line terminators of ECMAScript, which parseInt and
\* trim() skip: TAB, LF, VT, FF, CR, SP, NBSP, the other space separators
\* (Zs), LS, PS and ZWNBSP. A character that a string of this module cannot
\* hold is written as its escape.
Whitespace ==
    {" ", "\t", "\n", "\r", "\f", "", " ", "﻿", " ",
     "\\u2000", "\\u2001", "\\u2002", "\\u2003", "\\u2004", "\\u2005",
     "\\u2006", "\\u2007", "\\u2008", "\\u2009", "\\u200A", "\\u2028",
     "\\u2029", "\\u202F", "\\u205F", "\\u3000"}

RECURSIVE TrimStart(_)
TrimStart(s) ==
    IF s # <<>> /\ Head(s) \in Whitespace THEN TrimStart(Tail(s)) ELSE s

\* s starts with the characters of pattern.
StartsWith(s, pattern) ==
    Len(s) >= Len(pattern) /\ SubSeq(s, 1, Len(pattern)) = pattern

\* The value of the leading digits of the radix, NaN when there is none.
ParseDigits(digits, radix) ==
    LET n == DigitPrefixLen(digits, radix)
    IN  IF n = 0 THEN [nan |-> TRUE, val |-> 0]
        ELSE [nan |-> FALSE, val |-> DigitsValue(digits, n, radix)]

\* A 0x or 0X prefix makes the rest hexadecimal.
ParseUnsigned(u) ==
    IF StartsWith(u, <<"0", "x">>) \/ StartsWith(u, <<"0", "X">>)
    THEN ParseDigits(SubSeq(u, 3, Len(u)), 16)
    ELSE ParseDigits(u, 10)

\* The number with the sign read before it.
Signed(sign, v) == IF v.nan THEN v ELSE [nan |-> FALSE, val |-> sign * v.val]

\* A sign is read.
ParseSigned(t) ==
    IF t = <<>> THEN ParseUnsigned(t)
    ELSE Signed(IF Head(t) = "-" THEN -1 ELSE 1,
                ParseUnsigned(IF Head(t) \in {"+", "-"} THEN Tail(t) ELSE t))

\* parseInt(s) without a radix: leading white space is skipped, a sign is
\* read, a 0x or 0X prefix makes the rest hexadecimal, and the value is that
\* of the leading digits, NaN when there is none.
ParseInt(s) == ParseSigned(TrimStart(s))

\* timeWindow.slice(0, -1)
DropLast(s) == IF s = <<>> THEN <<>> ELSE SubSeq(s, 1, Len(s) - 1)

\* timeWindow.slice(-1)
LastChar(s) == IF s = <<>> THEN "" ELSE s[Len(s)]

Scale(v, k) == IF v.nan THEN v ELSE [nan |-> FALSE, val |-> v.val * k]

\* The switch on the unit, applied to the value read by parseInt.
ScaleByUnit(value, unit) ==
    CASE unit = "s" -> Scale(value, 1000)
      [] unit = "m" -> Scale(value, 60 * 1000)
      [] unit = "h" -> Scale(value, 60 * 60 * 1000)
      [] unit = "d" -> Scale(value, 24 * 60 * 60 * 1000)
      [] OTHER -> [nan |-> FALSE, val |-> DefaultWindowMs]

parseTimeWindow(timeWindow) ==
    ScaleByUnit(ParseInt(DropLast(timeWindow)), LastChar(timeWindow))

\* const windowMs = this.parseTimeWindow(config.timeWindow): a number of
\* milliseconds, or NaN.
WindowMs(config) ==
    LET ms == parseTimeWindow(config.timeWindow)
    IN  IF ms.nan THEN NaN ELSE ms.val

----------------------------------------------------------------------------
(* MemStorage: the store's methods as functions of the tables they touch *)

EmptyMap == [c \in {} |-> 0]

Min(S) == CHOOSE x \in S : \A y \in S : x <= y

\* The policy installed by the MemStorage constructor.
defaultConfig ==
    [id |-> 1, algorithm |-> "fixed-window", requestLimit |-> DefaultRequestLimit,
     timeWindow |-> <<"1", "m">>, isActive |-> TRUE]

\* Without the isActive test: the policy stored last is returned.
getRateLimitConfigLatest(cfgs) == <<cfgs[Len(cfgs)]>>

\* Array.from(configs.values()).find(config => config.isActive):
\* <<>> stands for undefined.
getRateLimitConfig(cfgs) ==
    LET active == {i \in 1..Len(cfgs) : cfgs[i].isActive}
    IN  IF active = {} THEN <<>> ELSE <<cfgs[Min(active)]>>

\* Without lines 201-203: the stored policies keep their isActive.
DeactivateNone(cfgs) == cfgs

\* The configs table after updateRateLimitConfig(configData).
DeactivateAll(cfgs) == [i \in 1..Len(cfgs) |-> [cfgs[i] EXCEPT !.isActive = FALSE]]

\* The policy stored for configData under the id drawn for it.
StoredConfig(configData, id) ==
    [id |-> id, algorithm |-> configData.algorithm,
     requestLimit |-> configData.requestLimit,
     timeWindow |-> configData.timeWindow, isActive |-> configData.isActive]

\* this.configs.set(id, config): an entry already stored under the key is
\* replaced where it stands, a new key goes to the end.
ConfigsSet(cfgs, id, config) ==
    IF \E i \in 1..Len(cfgs) : cfgs[i].id = id
    THEN [i \in 1..Len(cfgs) |-> IF cfgs[i].id = id THEN config ELSE cfgs[i]]
    ELSE Append(cfgs, config)

\* The configs table after updateRateLimitConfig(configData) has drawn id
\* from currentId: the constructor stores the default policy under key 1
\* and leaves currentId at 1, so that the first id drawn is 1 again.
updateRateLimitConfig(cfgs, configData, id) ==
    ConfigsSet(DeactivateAll(cfgs), id, StoredConfig(configData, id))

\* currentId after upsertActiveRateLimit(limitData): a record that already
\* exists keeps its id, a new one draws the next.
IdAfterUpsert(limits, limitData, id) ==
    IF limitData.clientId \in DOMAIN limits THEN id ELSE id + 1

\* activeLimits.get(clientId): <<>> stands for undefined.
getActiveRateLimit(limits, clientId) ==
    IF clientId \in DOMAIN limits THEN <<limits[clientId]>> ELSE <<>>

\* The write replaces the table instead of one entry of it.
upsertActiveRateLimitAlone(limits, limitData, t) ==
    [c \in {limitData.clientId} |->
        [clientId |-> limitData.clientId,
         requestCount |-> limitData.requestCount,
         resetTime |-> limitData.resetTime,
         status |-> limitData.status,
         lastRequest |-> t]]

\* The activeLimits table after upsertActiveRateLimit(limitData) at time t.
upsertActiveRateLimit(limits, limitData, t) ==
    LET limit == [clientId |-> limitData.clientId,
                  requestCount |-> limitData.requestCount,
                  resetTime |-> limitData.resetTime,
                  status |-> limitData.status,
                  lastRequest |-> t]
    IN  [c \in DOMAIN limits \cup {limitData.clientId} |->
            IF c = limitData.clientId THEN limit ELSE limits[c]]

\* Without lines 264-266: the log is never cut.
createViolationUncapped(viols, violationData, t) ==
    <<[clientId |-> violationData.clientId,
       endpoint |-> violationData.endpoint,
       attempts |-> violationData.attempts,
       timestamp |-> t,
       isBlocked |-> violationData.isBlocked]>> \o viols

\* push instead of unshift: the new record goes to the end of the log.
createViolationAtEnd(viols, violationData, t) ==
    LET violation == [clientId |-> violationData.clientId,
                      endpoint |-> violationData.endpoint,
                      attempts |-> violationData.attempts,
                      timestamp |-> t,
                      isBlocked |-> violationData.isBlocked]
        pushed == Append(viols, violation)
    IN  IF Len(pushed) > MaxViolations
        THEN SubSeq(pushed, 1, MaxViolations)
        ELSE pushed

\* The violation log after createViolation(violationData) at time t.
createViolation(viols, violationData, t) ==
    LET violation == [clientId |-> violationData.clientId,
                      endpoint |-> violationData.endpoint,
                      attempts |-> violationData.attempts,
                      timestamp |-> t,
                      isBlocked |-> violationData.isBlocked]
        unshifted == <<violation>> \o viols
    IN  IF Len(unshifted) > MaxViolations
        THEN SubSeq(unshifted, 1, MaxViolations)
        ELSE unshifted

\* blockClient(clientId) on the activeLimits table.
blockClientLimits(limits, clientId) ==
    IF clientId \in DOMAIN limits
    THEN [limits EXCEPT ![clientId].status = "blocked"]
    ELSE limits

\* Without the clientId test of line 287: every violation is marked.
blockClientViolationsOfAll(viols, clientId) ==
    [i \in 1..Len(viols) |-> [viols[i] EXCEPT !.isBlocked = TRUE]]

\* blockClient(clientId) on the violation log.
blockClientViolations(viols, clientId) ==
    [i \in 1..Len(viols) |->
        IF viols[i].clientId = clientId
        THEN [viols[i] EXCEPT !.isBlocked = TRUE]
        ELSE viols[i]]

\* The stored activeClients field, which nothing updates, in the place of
\* the table's size.
getSystemStatsStored(st, limits) ==
    [totalRequests |-> st.totalRequests,
     rateLimited |-> st.rateLimitedRequests,
     activeClients |-> st.activeClients]

\* The DashboardStats object built by getSystemStats().
getSystemStats(st, limits) ==
    [totalRequests |-> st.totalRequests,
     rateLimited |-> st.rateLimitedRequests,
     activeClients |-> Cardinality(DOMAIN limits)]

\* The activeLimits table after deleteActiveRateLimit(clientId).
deleteActiveRateLimit(limits, clientId) ==
    [c \in DOMAIN limits \ {clientId} |-> limits[c]]

\* With <= in the place of the < of line 336: a record whose resetTime is
\* the present instant goes too.
cleanupExpiredLimitsInclusive(limits, t) ==
    LET kept == {c \in DOMAIN limits : ~AtMost(limits[c].resetTime, t)}
    IN  [c \in kept |-> limits[c]]

\* Comparison reversed: the records removed are the ones still running.
cleanupExpiredLimitsReversed(limits, t) ==
    LET kept == {c \in DOMAIN limits : ~Greater(limits[c].resetTime, t)}
    IN  [c \in kept |-> limits[c]]

\* The activeLimits table after cleanupExpiredLimits() at time t.
cleanupExpiredLimits(limits, t) ==
    LET kept == {c \in DOMAIN limits : ~Less(limits[c].resetTime, t)}
    IN  [c \in kept |-> limits[c]]

----------------------------------------------------------------------------
(* The three algorithms: the decision and the writes of one checkLimit.    *)
(* `upsert` is <<>> when checkLimit returns without calling                *)
(* storage.upsertActiveRateLimit, else the one record it passes; `set` is  *)
(* <<>> when requestTimes is left alone, else the list stored for the      *)
(* client.                                                                 *)

Allowed(remaining, resetTime) ==
    [allowed |-> TRUE, remaining |-> remaining, resetTime |-> resetTime]

Denied(resetTime, retryAfter) ==
    [allowed |-> FALSE, remaining |-> 0, resetTime |-> resetTime,
     retryAfter |-> retryAfter]

\* Comparison reversed: warning at up to 80% consumed.
AtMost80Percent(newCount, requestLimit) == 10 * newCount <= 8 * requestLimit

\* newCount >= config.requestLimit * 0.8
AtLeast80Percent(newCount, requestLimit) == 10 * newCount >= 8 * requestLimit

\* remaining <= config.requestLimit * 0.2
AtMost20Percent(remaining, requestLimit) == 10 * remaining <= 2 * requestLimit

\* Off by one: the bucket counts as empty one request too late.
BucketEmptyLate(requestCount, requestLimit) == requestCount > requestLimit

\* Line 50: no token is left in the bucket.
BucketEmpty(requestCount, requestLimit) == requestCount >= requestLimit

\* Off by one: the window counts as full one request too late.
WindowFullLate(length, requestLimit) == length > requestLimit

\* Line 107: the window already holds the permitted number of requests.
WindowFull(length, requestLimit) == length >= requestLimit

\* Off by one: the limit counts as reached one request too late.
LimitExceededLate(requestCount, requestLimit) == requestCount > requestLimit

\* Line 187: the window's count has reached the limit.
LimitExceeded(requestCount, requestLimit) == requestCount >= requestLimit

\* A denial that is tallied as the fixed window tallies it: the count grows
\* and the status becomes blocked.
TokenBucketCheckTallyingDenial(clientId, config, activeLimit, now) ==
    LET Check(windowMs) ==
            LET al == activeLimit[1]
                newCount == al.requestCount + 1
            IN  IF activeLimit = <<>> \/ AtLeast(now, activeLimit[1].resetTime)
                THEN [result |-> Allowed(config.requestLimit - 1, Plus(now, windowMs)),
                      upsert |-> <<[clientId |-> clientId, requestCount |-> 1,
                                    resetTime |-> Plus(now, windowMs), status |-> "active"]>>,
                      set |-> <<>>]
                ELSE IF BucketEmpty(al.requestCount, config.requestLimit)
                THEN [result |-> Denied(al.resetTime, CeilDiv(Minus(al.resetTime, now), 1000)),
                      upsert |-> <<[clientId |-> clientId, requestCount |-> newCount,
                                    resetTime |-> al.resetTime, status |-> "blocked"]>>,
                      set |-> <<>>]
                ELSE [result |-> Allowed(config.requestLimit - newCount, al.resetTime),
                      upsert |-> <<[clientId |-> clientId, requestCount |-> newCount,
                                    resetTime |-> al.resetTime,
                                    status |-> IF AtLeast80Percent(newCount, config.requestLimit)
                                               THEN "warning" ELSE "active"]>>,
                      set |-> <<>>]
    IN  Check(WindowMs(config))

\* TokenBucketLimiter.checkLimit after its await of getActiveRateLimit.
TokenBucketCheck(clientId, config, activeLimit, now) ==
    LET Check(windowMs) ==
            LET al == activeLimit[1]
                newCount == al.requestCount + 1
            IN  IF activeLimit = <<>> \/ AtLeast(now, activeLimit[1].resetTime)
                THEN [result |-> Allowed(config.requestLimit - 1, Plus(now, windowMs)),
                      upsert |-> <<[clientId |-> clientId, requestCount |-> 1,
                                    resetTime |-> Plus(now, windowMs), status |-> "active"]>>,
                      set |-> <<>>]
                ELSE IF BucketEmpty(al.requestCount, config.requestLimit)
                THEN [result |-> Denied(al.resetTime, CeilDiv(Minus(al.resetTime, now), 1000)),
                      upsert |-> <<>>, set |-> <<>>]
                ELSE [result |-> Allowed(config.requestLimit - newCount, al.resetTime),
                      upsert |-> <<[clientId |-> clientId, requestCount |-> newCount,
                                    resetTime |-> al.resetTime,
                                    status |-> IF AtLeast80Percent(newCount, config.requestLimit)
                                               THEN "warning" ELSE "active"]>>,
                      set |-> <<>>]
    IN  Check(WindowMs(config))

\* Without lines 189-194: a denial writes nothing to the store.
FixedWindowCheckSilentDenial(clientId, config, activeLimit, now) ==
    LET Check(windowMs) ==
            LET windowStart == FloorToMultiple(now, windowMs)
                windowEnd == Plus(windowStart, windowMs)
                al == activeLimit[1]
                newCount == al.requestCount + 1
            IN  IF activeLimit = <<>> \/ AtMost(activeLimit[1].resetTime, now)
                THEN [result |-> Allowed(config.requestLimit - 1, windowEnd),
                      upsert |-> <<[clientId |-> clientId, requestCount |-> 1,
                                    resetTime |-> windowEnd, status |-> "active"]>>,
                      set |-> <<>>]
                ELSE IF LimitExceeded(al.requestCount, config.requestLimit)
                THEN [result |-> Denied(al.resetTime, CeilDiv(Minus(al.resetTime, now), 1000)),
                      upsert |-> <<>>, set |-> <<>>]
                ELSE [result |-> Allowed(config.requestLimit - newCount, al.resetTime),
                      upsert |-> <<[clientId |-> clientId, requestCount |-> newCount,
                                    resetTime |-> al.resetTime,
                                    status |-> IF AtLeast80Percent(newCount, config.requestLimit)
                                               THEN "warning" ELSE "active"]>>,
                      set |-> <<>>]
    IN  Check(WindowMs(config))

\* FixedWindowLimiter.checkLimit after its await of getActiveRateLimit;
\* now was read before that await.
FixedWindowCheck(clientId, config, activeLimit, now) ==
    LET Check(windowMs) ==
            LET windowStart == FloorToMultiple(now, windowMs)
                windowEnd == Plus(windowStart, windowMs)
                al == activeLimit[1]
                newCount == al.requestCount + 1
            IN  IF activeLimit = <<>> \/ AtMost(activeLimit[1].resetTime, now)
                THEN [result |-> Allowed(config.requestLimit - 1, windowEnd),
                      upsert |-> <<[clientId |-> clientId, requestCount |-> 1,
                                    resetTime |-> windowEnd, status |-> "active"]>>,
                      set |-> <<>>]
                ELSE IF LimitExceeded(al.requestCount, config.requestLimit)
                THEN [result |-> Denied(al.resetTime, CeilDiv(Minus(al.resetTime, now), 1000)),
                      upsert |-> <<[clientId |-> clientId,
                                    requestCount |-> al.requestCount + 1,
                                    resetTime |-> al.resetTime, status |-> "blocked"]>>,
                      set |-> <<>>]
                ELSE [result |-> Allowed(config.requestLimit - newCount, al.resetTime),
                      upsert |-> <<[clientId |-> clientId, requestCount |-> newCount,
                                    resetTime |-> al.resetTime,
                                    status |-> IF AtLeast80Percent(newCount, config.requestLimit)
                                               THEN "warning" ELSE "active"]>>,
                      set |-> <<>>]
    IN  Check(WindowMs(config))

\* this.requestTimes.get(clientId) || []
TimesOf(rt, clientId) == IF clientId \in DOMAIN rt THEN rt[clientId] ELSE <<>>

\* Comparison reversed: the expired timestamps are the ones kept.
FilterTimesReversed(times, windowStart) ==
    SelectSeq(times, LAMBDA time : Less(time, windowStart))

\* times.filter(time => time > windowStart)
FilterTimes(times, windowStart) == SelectSeq(times, LAMBDA time : Greater(time, windowStart))

\* The push of line 127 made before the test of line 107: a denied
\* request is listed too.
SlidingWindowCheckListingDenial(clientId, config, rt, now) ==
    LET Check(windowMs) ==
            LET windowStart == Minus(now, windowMs)
                times == FilterTimes(TimesOf(rt, clientId), windowStart)
                oldest == IF times = <<>> THEN NaN ELSE times[1]
                pushed == Append(times, now)
                remaining == config.requestLimit - Len(pushed)
            IN  IF WindowFull(Len(times), config.requestLimit)
                THEN [result |-> Denied(Plus(oldest, windowMs), CeilDiv(Minus(oldest, windowStart), 1000)),
                      upsert |-> <<[clientId |-> clientId, requestCount |-> Len(times) + 1,
                                    resetTime |-> Plus(oldest, windowMs), status |-> "blocked"]>>,
                      set |-> <<pushed>>]
                ELSE [result |-> Allowed(remaining, Plus(now, windowMs)),
                      upsert |-> <<[clientId |-> clientId, requestCount |-> Len(pushed),
                                    resetTime |-> Plus(now, windowMs),
                                    status |-> IF AtMost20Percent(remaining, config.requestLimit)
                                               THEN "warning" ELSE "active"]>>,
                      set |-> <<pushed>>]
    IN  Check(WindowMs(config))

\* SlidingWindowLimiter.checkLimit up to its await of upsertActiveRateLimit.
SlidingWindowCheck(clientId, config, rt, now) ==
    LET Check(windowMs) ==
            LET windowStart == Minus(now, windowMs)
                times == FilterTimes(TimesOf(rt, clientId), windowStart)
                oldest == IF times = <<>> THEN NaN ELSE times[1]
                pushed == Append(times, now)
                remaining == config.requestLimit - Len(pushed)
            IN  IF WindowFull(Len(times), config.requestLimit)
                THEN [result |-> Denied(Plus(oldest, windowMs), CeilDiv(Minus(oldest, windowStart), 1000)),
                      upsert |-> <<[clientId |-> clientId, requestCount |-> Len(times) + 1,
                                    resetTime |-> Plus(oldest, windowMs), status |-> "blocked"]>>,
                      set |-> <<>>]
                ELSE [result |-> Allowed(remaining, Plus(now, windowMs)),
                      upsert |-> <<[clientId |-> clientId, requestCount |-> Len(pushed),
                                    resetTime |-> Plus(now, windowMs),
                                    status |-> IF AtMost20Percent(remaining, config.requestLimit)
                                               THEN "warning" ELSE "active"]>>,
                      set |-> <<pushed>>]
    IN  Check(WindowMs(config))

----------------------------------------------------------------------------
(* RateLimiterService.checkRateLimit: the pieces its runs share.          *)

\* RateLimiterService.algorithms
KnownAlgorithms == {"token-bucket", "sliding-window", "fixed-window"}

\* A fallback in the place of undefined: an unregistered name gets the
\* fixed-window limiter.
algorithmsGetWithFallback(name) ==
    IF name \in KnownAlgorithms THEN <<name>> ELSE <<"fixed-window">>

\* Line 251, this.algorithms.get(name): <<>> stands for undefined, and a
\* limiter is named by the key it is registered under.
algorithmsGet(name) == IF name \in KnownAlgorithms THEN <<name>> ELSE <<>>

NoConfigError == [error |-> "No rate limit configuration found"]
UnknownAlgorithmError == [error |-> "Unknown algorithm"]

IsDecision(result) == "allowed" \in DOMAIN result

\* Lines 247-254: <<>> when the call goes on to the algorithm, else the
\* error thrown.
ConfigError(config) ==
    IF config = <<>> THEN <<NoConfigError>>
    ELSE IF algorithmsGet(config[1].algorithm) = <<>> THEN <<UnknownAlgorithmError>>
    ELSE <<>>

\* activeLimits after the upsert a checkLimit outcome asks for, at time t.
AfterUpsert(limits, outcome, t) ==
    IF outcome.upsert = <<>> THEN limits
    ELSE upsertActiveRateLimit(limits, outcome.upsert[1], t)

\* currentId after the upsert a checkLimit outcome asks for.
IdAfter(limits, outcome, id) ==
    IF outcome.upsert = <<>> THEN id
    ELSE IdAfterUpsert(limits, outcome.upsert[1], id)

\* requestTimes after the set a checkLimit outcome asks for.
AfterSet(rt, clientId, outcome) ==
    IF outcome.set = <<>> THEN rt
    ELSE [x \in DOMAIN rt \cup {clientId} |->
             IF x = clientId THEN outcome.set[1] ELSE rt[x]]

\* Lines 259-261: updateSystemStats({totalRequests: read + 1}).
WithTotal(st, read) == [st EXCEPT !.totalRequests = read + 1]

\* Wrong key: the denial count is written over totalRequests.
WithRateLimitedAsTotal(st, read) == [st EXCEPT !.totalRequests = read + 1]

\* Lines 273-275: updateSystemStats({rateLimitedRequests: read + 1}).
WithRateLimited(st, read) == [st EXCEPT !.rateLimitedRequests = read + 1]

\* Lines 265-270: the record passed to createViolation.
ViolationData(clientId, endpoint) ==
    [clientId |-> clientId, endpoint |-> endpoint, attempts |-> 1,
     isBlocked |-> FALSE]

\* What the caller of checkRateLimit receives.
Returned(clientId, endpoint, now, epoch, result) ==
    [clientId |-> clientId, endpoint |-> endpoint, now |-> now,
     epoch |-> epoch, result |-> result]

----------------------------------------------------------------------------
(* The invocations in flight *)

\* An invocation slot that holds no call. handler is "middleware" while
\* the slot runs the rate limiting middleware, which calls checkRateLimit,
\* and mwStats is what the middleware read at its line 726.
Idle ==
    [pc |-> "idle", clientId |-> "", endpoint |-> "", config |-> <<>>,
     activeLimit |-> <<>>, now |-> 0, result |-> <<>>, statsRead |-> 0,
     epoch |-> 0, handler |-> "", mwStats |-> <<>>]

NoneInFlight == \A p \in Procs : calls[p].pc = "idle"

\* The tables as an invocation finds them when it begins.
Found ==
    [activeLimits |-> activeLimits, requestTimes |-> requestTimes,
     violations |-> violations, stats |-> stats]

\* What the caller receives when an awaited store operation rejects:
\* checkRateLimit has no try/catch, so the rejection is its own.
StoreError == [error |-> "store operation failed"]

\* What the HTTP caller gets when the middleware calls next(): the request
\* goes on to its route.
PassedOn == [passed |-> TRUE]

----------------------------------------------------------------------------
(* RateLimiterService.checkRateLimit, lines 245-279: one action per run    *)
(* between two awaits.  pc names the await the invocation is parked on.    *)

\* Line 246: the call begins and reads the active policy.
Start(p, clientId, endpoint) ==
    /\ calls[p].pc = "idle"
    /\ \A q \in Procs : q < p => calls[q].pc # "idle"
    /\ started' = started + 1
    /\ calls' = [calls EXCEPT ![p] =
                    [Idle EXCEPT !.pc = "await_config",
                                 !.clientId = clientId,
                                 !.endpoint = endpoint,
                                 !.config = getRateLimitConfig(configs),
                                 !.epoch = Len(installed)]]
    /\ before' = [before EXCEPT ![p] = <<Found>>]
    /\ UNCHANGED <<clock, configs, currentId, installed, activeLimits, requestTimes,
                   violations,
                   stats, hist, adminBlocked, accounts, probe>>

\* Lines 247-254: no active policy, or no algorithm of that name.
DispatchFail(p) ==
    /\ calls[p].pc = "await_config"
    /\ ConfigError(calls[p].config) # <<>>
    /\ calls' = [calls EXCEPT ![p].pc = "failed",
                              ![p].now = clock,
                              ![p].result = ConfigError(calls[p].config)]
    /\ UNCHANGED <<clock, configs, currentId, installed, activeLimits, requestTimes,
                   violations,
                   stats, started, hist, adminBlocked, before, accounts, probe>>

Dispatches(p, algorithm) ==
    /\ calls[p].pc = "await_config"
    /\ calls[p].config # <<>>
    /\ algorithmsGet(calls[p].config[1].algorithm) = <<algorithm>>

\* Line 256 into TokenBucketLimiter.checkLimit, line 10.
DispatchTokenBucket(p) ==
    /\ Dispatches(p, "token-bucket")
    /\ calls' = [calls EXCEPT
                    ![p].pc = "await_limit",
                    ![p].activeLimit = getActiveRateLimit(activeLimits, calls[p].clientId)]
    /\ UNCHANGED <<clock, configs, currentId, installed, activeLimits, requestTimes,
                   violations,
                   stats, started, hist, adminBlocked, before, accounts, probe>>

\* Line 256 into FixedWindowLimiter.checkLimit, lines 163-168.
DispatchFixedWindow(p) ==
    /\ Dispatches(p, "fixed-window")
    /\ calls' = [calls EXCEPT
                    ![p].pc = "await_limit",
                    ![p].now = clock,
                    ![p].activeLimit = getActiveRateLimit(activeLimits, calls[p].clientId)]
    /\ UNCHANGED <<clock, configs, currentId, installed, activeLimits, requestTimes,
                   violations,
                   stats, started, hist, adminBlocked, before, accounts, probe>>

\* Line 256 into SlidingWindowLimiter.checkLimit, lines 96-138: the whole
\* decision runs before the first await.
DispatchSlidingWindow(p) ==
    /\ Dispatches(p, "sliding-window")
    /\ \E outcome \in {SlidingWindowCheck(calls[p].clientId, calls[p].config[1],
                                         requestTimes, clock)} :
           /\ requestTimes' = AfterSet(requestTimes, calls[p].clientId, outcome)
           /\ activeLimits' = AfterUpsert(activeLimits, outcome, clock)
           /\ currentId' = IdAfter(activeLimits, outcome, currentId)
           /\ calls' = [calls EXCEPT ![p].pc = "await_checkLimit",
                                     ![p].now = clock,
                                     ![p].result = <<outcome.result>>]
    /\ UNCHANGED <<clock, configs, installed, violations, stats, started, hist,
                   adminBlocked, before, accounts, probe>>

\* TokenBucketLimiter.checkLimit, lines 11-75.
TokenBucketDecide(p) ==
    /\ calls[p].pc = "await_limit"
    /\ algorithmsGet(calls[p].config[1].algorithm) = <<"token-bucket">>
    /\ \E outcome \in {TokenBucketCheck(calls[p].clientId, calls[p].config[1],
                                       calls[p].activeLimit, clock)} :
           /\ activeLimits' = AfterUpsert(activeLimits, outcome, clock)
           /\ currentId' = IdAfter(activeLimits, outcome, currentId)
           /\ calls' = [calls EXCEPT ![p].pc = "await_checkLimit",
                                     ![p].now = clock,
                                     ![p].result = <<outcome.result>>]
    /\ UNCHANGED <<clock, configs, installed, requestTimes, violations, stats,
                   started, hist, adminBlocked, before, accounts, probe>>

\* FixedWindowLimiter.checkLimit, lines 170-218.
FixedWindowDecide(p) ==
    /\ calls[p].pc = "await_limit"
    /\ algorithmsGet(calls[p].config[1].algorithm) = <<"fixed-window">>
    /\ \E outcome \in {FixedWindowCheck(calls[p].clientId, calls[p].config[1],
                                       calls[p].activeLimit, calls[p].now)} :
           /\ activeLimits' = AfterUpsert(activeLimits, outcome, clock)
           /\ currentId' = IdAfter(activeLimits, outcome, currentId)
           /\ calls' = [calls EXCEPT ![p].pc = "await_checkLimit",
                                     ![p].result = <<outcome.result>>]
    /\ UNCHANGED <<clock, configs, installed, requestTimes, violations, stats,
                   started, hist, adminBlocked, before, accounts, probe>>

\* Line 260: checkLimit has returned; getSystemStats() is called.
ReadTotal(p) ==
    /\ calls[p].pc = "await_checkLimit"
    /\ calls' = [calls EXCEPT
                    ![p].pc = "await_stats_total",
                    ![p].statsRead = getSystemStats(stats, activeLimits).totalRequests]
    /\ UNCHANGED <<clock, configs, currentId, installed, activeLimits, requestTimes,
                   violations,
                   stats, started, hist, adminBlocked, before, accounts, probe>>

\* Lines 259-261: updateSystemStats with the value read.
WriteTotal(p) ==
    /\ calls[p].pc = "await_stats_total"
    /\ stats' = WithTotal(stats, calls[p].statsRead)
    /\ calls' = [calls EXCEPT ![p].pc = "await_update_total"]
    /\ UNCHANGED <<clock, configs, currentId, installed, activeLimits, requestTimes,
                   violations,
                   started, hist, adminBlocked, before, accounts, probe>>

\* Lines 263 and 278: an allowed decision is returned as it is.
ReturnAllowed(p) ==
    /\ calls[p].pc = "await_update_total"
    /\ calls[p].result[1].allowed
    /\ calls' = [calls EXCEPT ![p].pc = "done"]
    /\ UNCHANGED <<clock, configs, currentId, installed, activeLimits, requestTimes,
                   violations,
                   stats, started, hist, adminBlocked, before, accounts, probe>>

\* Lines 263-270: a denial is logged.
LogViolation(p) ==
    /\ calls[p].pc = "await_update_total"
    /\ ~calls[p].result[1].allowed
    /\ violations' = createViolation(violations,
                        ViolationData(calls[p].clientId, calls[p].endpoint), clock)
    /\ currentId' = currentId + 1
    /\ calls' = [calls EXCEPT ![p].pc = "await_violation"]
    /\ UNCHANGED <<clock, configs, installed, activeLimits, requestTimes, stats,
                   started, hist, adminBlocked, before, accounts, probe>>

\* Line 274: getSystemStats() is called.
ReadRateLimited(p) ==
    /\ calls[p].pc = "await_violation"
    /\ calls' = [calls EXCEPT
                    ![p].pc = "await_stats_limited",
                    ![p].statsRead = getSystemStats(stats, activeLimits).rateLimited]
    /\ UNCHANGED <<clock, configs, currentId, installed, activeLimits, requestTimes,
                   violations,
                   stats, started, hist, adminBlocked, before, accounts, probe>>

\* Lines 273-278: updateSystemStats with the value read, then the denial
\* is returned.
WriteRateLimited(p) ==
    /\ calls[p].pc = "await_stats_limited"
    /\ stats' = WithRateLimited(stats, calls[p].statsRead)
    /\ calls' = [calls EXCEPT ![p].pc = "done"]
    /\ UNCHANGED <<clock, configs, currentId, installed, activeLimits, requestTimes,
                   violations,
                   started, hist, adminBlocked, before, accounts, probe>>

\* The caller's await of checkRateLimit resumes with the decision, or with
\* the error thrown.
Deliver(p) ==
    /\ calls[p].pc \in {"done", "failed"}
    /\ calls[p].handler = ""
    /\ hist' = Append(hist, Returned(calls[p].clientId, calls[p].endpoint,
                                     calls[p].now, calls[p].epoch,
                                     calls[p].result[1]))
    /\ calls' = [calls EXCEPT ![p] = Idle]
    /\ before' = [before EXCEPT ![p] = <<>>]
    /\ UNCHANGED <<clock, configs, currentId, installed, activeLimits, requestTimes,
                   violations,
                   stats, started, adminBlocked, accounts, probe>>

\* One run of checkRateLimit between two awaits.
Step(p) ==
    \/ DispatchFail(p)
    \/ DispatchTokenBucket(p)
    \/ DispatchFixedWindow(p)
    \/ DispatchSlidingWindow(p)
    \/ TokenBucketDecide(p)
    \/ FixedWindowDecide(p)
    \/ ReadTotal(p)
    \/ WriteTotal(p)
    \/ ReturnAllowed(p)
    \/ LogViolation(p)
    \/ ReadRateLimited(p)
    \/ WriteRateLimited(p)

\* The store operation a call makes when it resumes from the await it is
\* parked on, among those that count and log (lines 259-275); "" when the
\* call makes none of them.
PendingStoreOp(call) ==
    CASE call.pc = "await_checkLimit" -> "getSystemStats"
      [] call.pc = "await_stats_total" -> "updateSystemStats"
      [] call.pc = "await_update_total" /\ ~call.result[1].allowed -> "createViolation"
      [] call.pc = "await_violation" -> "getSystemStats"
      [] call.pc = "await_stats_limited" -> "updateSystemStats"
      [] OTHER -> ""

\* A store operation of lines 259-275 rejects when the call makes it: the
\* operation has no effect, the statements after it are not reached, and
\* the rejection becomes that of checkRateLimit, which has no try/catch.
Reject(p) ==
    /\ PendingStoreOp(calls[p]) # ""
    /\ calls' = [calls EXCEPT ![p].pc = "failed", ![p].result = <<StoreError>>]
    /\ UNCHANGED <<clock, configs, currentId, installed, activeLimits, requestTimes,
                   violations, stats, started, hist, adminBlocked, before,
                   accounts, probe>>

----------------------------------------------------------------------------
(* The rate limiting middleware of app.use('/api/protected/*'),            *)
(* quick-test.js lines 715-787: one action per run between two awaits.     *)
(* clientId is what getClientId resolved for the request.                  *)

\* Line 717: the request arrives and the middleware reads the active
\* policy.
MwStart(p, clientId, endpoint) ==
    /\ calls[p].pc = "idle"
    /\ \A q \in Procs : q < p => calls[q].pc # "idle"
    /\ started' = started + 1
    /\ calls' = [calls EXCEPT ![p] =
                    [Idle EXCEPT !.pc = "mw_await_config",
                                 !.handler = "middleware",
                                 !.clientId = clientId,
                                 !.endpoint = endpoint,
                                 !.now = clock,
                                 !.config = getRateLimitConfig(configs),
                                 !.epoch = Len(installed)]]
    /\ before' = [before EXCEPT ![p] = <<Found>>]
    /\ UNCHANGED <<clock, configs, currentId, installed, activeLimits, requestTimes,
                   violations, stats, hist, adminBlocked, accounts, probe>>

\* The middleware is through with the request: the response is sent, or
\* the request goes on to its route.
MwFinished(p, result) ==
    /\ hist' = Append(hist, Returned(calls[p].clientId, calls[p].endpoint,
                                     calls[p].now, calls[p].epoch, result))
    /\ calls' = [calls EXCEPT ![p] = Idle]
    /\ before' = [before EXCEPT ![p] = <<>>]

\* Lines 718-720: without an active policy the request is passed on.
MwPassNoConfig(p) ==
    /\ calls[p].pc = "mw_await_config"
    /\ calls[p].config = <<>>
    /\ MwFinished(p, PassedOn)
    /\ UNCHANGED <<clock, configs, currentId, installed, activeLimits, requestTimes,
                   violations, stats, started, adminBlocked, accounts, probe>>

\* Lines 722-723 into checkRateLimit, line 246: the call begins and reads
\* the active policy again.
MwCall(p) ==
    /\ calls[p].pc = "mw_await_config"
    /\ calls[p].config # <<>>
    /\ calls' = [calls EXCEPT ![p].pc = "await_config",
                              ![p].config = getRateLimitConfig(configs),
                              ![p].epoch = Len(installed)]
    /\ UNCHANGED <<clock, configs, currentId, installed, activeLimits, requestTimes,
                   violations, stats, started, hist, adminBlocked, before,
                   accounts, probe>>

\* Lines 783-786: an error thrown by checkRateLimit is caught and the
\* request passed on.
MwCatch(p) ==
    /\ calls[p].pc = "failed"
    /\ calls[p].handler = "middleware"
    /\ MwFinished(p, PassedOn)
    /\ UNCHANGED <<clock, configs, currentId, installed, activeLimits, requestTimes,
                   violations, stats, started, adminBlocked, accounts, probe>>

\* Line 726: checkRateLimit has returned its decision; getSystemStats() is
\* called.
MwReadStats(p) ==
    /\ calls[p].pc = "done"
    /\ calls[p].handler = "middleware"
    /\ calls' = [calls EXCEPT ![p].pc = "mw_await_stats",
                              ![p].mwStats = <<getSystemStats(stats, activeLimits)>>]
    /\ UNCHANGED <<clock, configs, currentId, installed, activeLimits, requestTimes,
                   violations, stats, started, hist, adminBlocked, before,
                   accounts, probe>>

\* Lines 727-729: updateSystemStats with the total read at line 726.
MwWriteTotal(p) ==
    /\ calls[p].pc = "mw_await_stats"
    /\ stats' = WithTotal(stats, calls[p].mwStats[1].totalRequests)
    /\ calls' = [calls EXCEPT ![p].pc = "mw_await_total"]
    /\ UNCHANGED <<clock, configs, currentId, installed, activeLimits, requestTimes,
                   violations, started, hist, adminBlocked, before, accounts,
                   probe>>

\* Line 735: new Date(result.resetTime).toISOString() throws on an Invalid
\* Date.
InvalidDate(result) == result.resetTime = NaN

\* Lines 732-736 and 783-786: the headers cannot be set, the error is
\* caught and the request passed on with what has been written so far.
MwHeadersThrow(p) ==
    /\ calls[p].pc = "mw_await_total"
    /\ InvalidDate(calls[p].result[1])
    /\ MwFinished(p, PassedOn)
    /\ UNCHANGED <<clock, configs, currentId, installed, activeLimits, requestTimes,
                   violations, stats, started, adminBlocked, accounts, probe>>

\* Lines 744-746: a denial is counted, from the value read at line 726.
MwWriteRateLimited(p) ==
    /\ calls[p].pc = "mw_await_total"
    /\ ~InvalidDate(calls[p].result[1])
    /\ ~calls[p].result[1].allowed
    /\ stats' = WithRateLimited(stats, calls[p].mwStats[1].rateLimited)
    /\ calls' = [calls EXCEPT ![p].pc = "mw_await_limited"]
    /\ UNCHANGED <<clock, configs, currentId, installed, activeLimits, requestTimes,
                   violations, started, hist, adminBlocked, before, accounts,
                   probe>>

\* Lines 749-754: the denial is logged.
MwLogViolation(p) ==
    /\ calls[p].pc = "mw_await_limited"
    /\ violations' = createViolation(violations,
                        ViolationData(calls[p].clientId, calls[p].endpoint), clock)
    /\ currentId' = currentId + 1
    /\ calls' = [calls EXCEPT ![p].pc = "mw_await_violation"]
    /\ UNCHANGED <<clock, configs, installed, activeLimits, requestTimes, stats,
                   started, hist, adminBlocked, before, accounts, probe>>

\* Lines 757-760 and 777-780: getSystemStats() is called for the
\* broadcast, after a logged denial or an allowed decision.
MwReadBroadcast(p) ==
    /\ \/ calls[p].pc = "mw_await_violation"
       \/ /\ calls[p].pc = "mw_await_total"
          /\ ~InvalidDate(calls[p].result[1])
          /\ calls[p].result[1].allowed
    /\ calls' = [calls EXCEPT ![p].pc = "mw_await_broadcast"]
    /\ UNCHANGED <<clock, configs, currentId, installed, activeLimits, requestTimes,
                   violations, stats, started, hist, adminBlocked, before,
                   accounts, probe>>

\* Lines 762-766 and 782: the 429 is sent, or the request passed on to
\* its route with the decision in its headers.
MwRespond(p) ==
    /\ calls[p].pc = "mw_await_broadcast"
    /\ MwFinished(p, calls[p].result[1])
    /\ UNCHANGED <<clock, configs, currentId, installed, activeLimits, requestTimes,
                   violations, stats, started, adminBlocked, accounts, probe>>

\* One run of the middleware between two awaits.
MwStep(p) ==
    \/ MwPassNoConfig(p)
    \/ MwCall(p)
    \/ MwCatch(p)
    \/ MwReadStats(p)
    \/ MwWriteTotal(p)
    \/ MwHeadersThrow(p)
    \/ MwWriteRateLimited(p)
    \/ MwLogViolation(p)
    \/ MwReadBroadcast(p)
    \/ MwRespond(p)

----------------------------------------------------------------------------
(* The other operations of the service *)

\* The policies posted: every active combination of the three algorithms,
\* one inactive policy and one policy naming an algorithm that is not
\* registered (no call gets as far as reading the other fields of these).
PolicyInputs ==
    [algorithm : Algorithms, requestLimit : Limits, timeWindow : TimeWindows,
     isActive : {TRUE}]
    \cup {[algorithm |-> "fixed-window", requestLimit |-> 1,
            timeWindow |-> <<"1", "s">>, isActive |-> FALSE],
           [algorithm |-> "leaky-bucket", requestLimit |-> 1,
            timeWindow |-> <<"1", "s">>, isActive |-> TRUE]}

\* The policies that replace one another: one window length, so that the
\* algorithm, the limit and the two failing policies make the difference.
SwapPolicyInputs ==
    {configData \in PolicyInputs : configData.timeWindow = <<"1", "s">>}

\* The policies installed while calls are in flight.
ConcPolicyInputs ==
    [algorithm : Algorithms, requestLimit : {1}, timeWindow : {<<"1", "s">>},
     isActive : ActiveFlags]

\* The update without line 206: the state table is kept.
UpdateConfigKeepingTable(configData) ==
    /\ configs' = updateRateLimitConfig(configs, configData, currentId)
    /\ currentId' = currentId + 1
    /\ installed' = Append(installed, StoredConfig(configData, currentId))
    /\ adminBlocked' = EmptyMap
    /\ UNCHANGED <<clock, activeLimits, requestTimes, violations, stats, calls,
                   started, hist, before, accounts, probe>>

\* POST /api/config: MemStorage.updateRateLimitConfig, lines 183-210.
UpdateConfig(configData) ==
    /\ configs' = updateRateLimitConfig(configs, configData, currentId)
    /\ currentId' = currentId + 1
    /\ installed' = Append(installed, StoredConfig(configData, currentId))
    /\ activeLimits' = EmptyMap
    /\ adminBlocked' = EmptyMap
    /\ UNCHANGED <<clock, requestTimes, violations, stats, calls, started, hist,
                   before, accounts, probe>>

\* The note taken of a block: the client whose record blockClient marked,
\* with the resetTime of that record.
NoteBlock(blocked, limits, clientId) ==
    IF clientId \in DOMAIN limits
    THEN [x \in DOMAIN blocked \cup {clientId} |->
             IF x = clientId THEN limits[clientId].resetTime ELSE blocked[x]]
    ELSE blocked

\* POST /api/block/:clientId: MemStorage.blockClient, lines 275-290.
BlockClient(clientId) ==
    /\ activeLimits' = blockClientLimits(activeLimits, clientId)
    /\ violations' = blockClientViolations(violations, clientId)
    /\ adminBlocked' = NoteBlock(adminBlocked, activeLimits, clientId)
    /\ UNCHANGED <<clock, configs, currentId, installed, requestTimes, stats, calls, started, hist,
                   before, accounts, probe>>

\* MemStorage.deleteActiveRateLimit, lines 242-244. No route and no timer
\* of the service calls it: it is run by whoever holds the storage object.
DeleteActiveRateLimit(clientId) ==
    /\ activeLimits' = deleteActiveRateLimit(activeLimits, clientId)
    /\ adminBlocked' = [x \in DOMAIN adminBlocked \ {clientId} |-> adminBlocked[x]]
    /\ UNCHANGED <<clock, configs, currentId, installed, requestTimes, violations,
                   stats, calls, started, hist, before, accounts, probe>>

\* A property that is undefined, or a string that || passes over.
Unset(v) == v = <<>> \/ v[1] = ""

\* `prefix_${this.currentId++}`
DrawnId(prefix, id) == prefix \o ToString(id)

\* MemStorage.upsertUser, lines 121-137: a user without an id gets one
\* drawn from currentId; a user stored under the id is replaced. The
\* creation time is the one given, and the present instant when none is
\* (line 132); the update time is the present instant. The profile and
\* subscription fields are copied as email is.
UpsertUser(userData) ==
    LET id == IF Unset(userData.id) THEN DrawnId("user_", currentId)
              ELSE userData.id[1]
        user == [id |-> id, email |-> userData.email,
                 createdAt |-> IF userData.createdAt = <<>> THEN clock
                               ELSE userData.createdAt[1],
                 updatedAt |-> clock]
    IN  /\ currentId' = IF Unset(userData.id) THEN currentId + 1 ELSE currentId
        /\ users' = [u \in DOMAIN users \cup {id} |->
                        IF u = id THEN user ELSE users[u]]
        /\ UNCHANGED <<clock, configs, installed, activeLimits, requestTimes,
                       violations, stats, calls, started, hist, adminBlocked,
                       before, apiKeys, usageMetrics, probe>>

\* MemStorage.createApiKey, lines 140-156: the key gets an id drawn from
\* currentId and is stored under its hash.
CreateApiKey(data) ==
    LET apiKey == [id |-> DrawnId("key_", currentId), name |-> data.name,
                   userId |-> data.userId, keyHash |-> data.keyHash,
                   lastUsed |-> <<>>, createdAt |-> clock]
    IN  /\ currentId' = currentId + 1
        /\ apiKeys' = [k \in DOMAIN apiKeys \cup {data.keyHash} |->
                          IF k = data.keyHash THEN apiKey ELSE apiKeys[k]]
        /\ UNCHANGED <<clock, configs, installed, activeLimits, requestTimes,
                       violations, stats, calls, started, hist, adminBlocked,
                       before, users, usageMetrics, probe>>

\* MemStorage.updateApiKeyUsage, lines 166-172: the key of that id, when
\* there is one, is marked as used now.
UpdateApiKeyUsage(keyId) ==
    /\ apiKeys' = [k \in DOMAIN apiKeys |->
                      IF apiKeys[k].id = keyId
                      THEN [apiKeys[k] EXCEPT !.lastUsed = <<clock>>]
                      ELSE apiKeys[k]]
    /\ UNCHANGED <<clock, configs, currentId, installed, activeLimits, requestTimes,
                   violations, stats, calls, started, hist, adminBlocked,
                   before, users, usageMetrics, probe>>

\* MemStorage.recordUsage, lines 309-321: the record gets an id drawn from
\* currentId and goes to the end of the list; a count that is not given
\* is 0.
RecordUsage(metrics) ==
    LET usage == [id |-> DrawnId("usage_", currentId), userId |-> metrics.userId,
                  date |-> clock,
                  requestCount |-> IF metrics.requestCount = <<>> THEN 0
                                   ELSE metrics.requestCount[1]]
    IN  /\ currentId' = currentId + 1
        /\ usageMetrics' = Append(usageMetrics, usage)
        /\ UNCHANGED <<clock, configs, installed, activeLimits, requestTimes,
                       violations, stats, calls, started, hist, adminBlocked,
                       before, users, apiKeys, probe>>

\* The 30 s timer: MemStorage.cleanupExpiredLimits, lines 333-340.
Cleanup ==
    /\ activeLimits' = cleanupExpiredLimits(activeLimits, clock)
    /\ UNCHANGED <<clock, configs, currentId, installed, requestTimes, violations, stats, calls,
                   started, hist, adminBlocked, before, accounts, probe>>

\* Time passes, up to the given time after the start.
Tick(maxElapsed) ==
    /\ clock + TickMs <= StartClock + maxElapsed
    /\ clock' = clock + TickMs
    /\ UNCHANGED <<configs, currentId, installed, activeLimits, requestTimes, violations, stats,
                   calls, started, hist, adminBlocked, before, accounts, probe>>

----------------------------------------------------------------------------
(* RateLimiterService.getClientId. A string is the sequence of its         *)
(* characters; a header or property of the request is <<>> when it is      *)
(* undefined and <<s>> when it is the string s.                            *)

\* s.split(',')[0]: the characters before the first comma.
RECURSIVE SplitFirst(_)
SplitFirst(s) ==
    IF s = <<>> \/ Head(s) = "," THEN <<>>
    ELSE <<Head(s)>> \o SplitFirst(Tail(s))

RECURSIVE TrimEnd(_)
TrimEnd(s) ==
    IF s # <<>> /\ s[Len(s)] \in Whitespace THEN TrimEnd(DropLast(s)) ELSE s

\* s.trim()
Trim(s) == TrimEnd(TrimStart(s))

\* s.replace(pattern, ''): the first occurrence of pattern is taken out.
RECURSIVE ReplaceFirst(_, _)
ReplaceFirst(s, pattern) ==
    IF StartsWith(s, pattern) THEN SubSeq(s, Len(pattern) + 1, Len(s))
    ELSE IF s = <<>> THEN <<>>
    ELSE <<Head(s)>> \o ReplaceFirst(Tail(s), pattern)

\* 'Bearer '
BearerPrefix == <<"B", "e", "a", "r", "e", "r", " ">>

\* '127.0.0.1', 'anonymous-api' and 'anonymous-user'
Loopback == <<"1", "2", "7", ".", "0", ".", "0", ".", "1">>
AnonymousApi == <<"a", "n", "o", "n", "y", "m", "o", "u", "s", "-", "a", "p", "i">>
AnonymousUser ==
    <<"a", "n", "o", "n", "y", "m", "o", "u", "s", "-", "u", "s", "e", "r">>

\* A value that || stops at: a defined, non-empty string.
Truthy(v) == v # <<>> /\ v[1] # <<>>

\* a || b
Or(a, b) == IF Truthy(a) THEN a ELSE b

\* req.headers['x-forwarded-for']?.split(',')[0]?.trim()
ForwardedFirst(header) ==
    IF header = <<>> THEN <<>> ELSE <<Trim(SplitFirst(header[1]))>>

\* req.headers['authorization']?.replace('Bearer ', '')
AuthorizationToken(header) ==
    IF header = <<>> THEN <<>> ELSE <<ReplaceFirst(header[1], BearerPrefix)>>

\* getClientId(req, config), lines 281-301. The request carries ip, the
\* headers x-forwarded-for, x-real-ip, x-api-key, authorization, x-user-id
\* and user-id, connection.remoteAddress and user?.id.
getClientId(req, config) ==
    CASE config.clientIdType = "ip" ->
            Or(req.ip,
               Or(ForwardedFirst(req.xForwardedFor),
                  Or(req.xRealIp, Or(req.remoteAddress, <<Loopback>>))))[1]
      [] config.clientIdType = "api-key" ->
            Or(req.xApiKey,
               Or(AuthorizationToken(req.authorization), <<AnonymousApi>>))[1]
      [] config.clientIdType = "user-id" ->
            Or(req.userId,
               Or(req.xUserIdHeader, Or(req.userIdHeader, <<AnonymousUser>>)))[1]
      [] OTHER -> Or(req.ip, <<Loopback>>)[1]

\* No pure function is being looked at.
Unprobed == <<>>

\* The state after `new MemStorage()` and `new RateLimiterService()`.
Constructed ==
    /\ clock = StartClock
    /\ configs = <<defaultConfig>>
    /\ currentId = 1
    /\ installed = <<defaultConfig>>
    /\ activeLimits = EmptyMap
    /\ requestTimes = EmptyMap
    /\ violations = <<>>
    /\ stats = [totalRequests |-> 0, rateLimitedRequests |-> 0,
                activeClients |-> 0]
    /\ calls = [p \in Procs |-> Idle]
    /\ started = 0
    /\ hist = <<>>
    /\ adminBlocked = EmptyMap
    /\ before = [p \in Procs |-> <<>>]
    /\ users = EmptyMap
    /\ apiKeys = EmptyMap
    /\ usageMetrics = <<>>

\* The service is up and nothing else is looked at.
Init == Constructed /\ probe = Unprobed

\* No request has been made and no policy installed yet.
Fresh == started = 0 /\ Len(installed) = 1

\* One policy: the service runs, one operation after the other, under the
\* default policy or under a policy installed before the first request. A
\* call begins while none is in flight, and until it has returned nothing
\* but its own runs takes place.
Next ==
    \/ \E p \in Procs, c \in Clients, e \in Endpoints :
          started < MaxRequests /\ NoneInFlight /\ Start(p, c, e)
    \/ \E p \in Procs : Step(p)
    \/ \E p \in Procs : Deliver(p)
    \/ \E configData \in PolicyInputs :
          NoneInFlight /\ Fresh /\ UpdateConfig(configData)
    \/ \E c \in Clients : NoneInFlight /\ BlockClient(c)
    \/ NoneInFlight /\ Cleanup
    \/ NoneInFlight /\ Tick(MaxElapsed)

Spec == Init /\ [][Next]_vars

\* The users, API keys and usage records written to the store.
UpsertUserInputs ==
    [id : {<<>>, <<"u1">>}, email : {"u1@example.com"}, createdAt : {<<>>, <<1000>>}]
InsertApiKeyInputs == [name : {"k1"}, userId : {"u1"}, keyHash : {"h1"}]
UsageInputs == [userId : {"u1"}, requestCount : {<<>>, <<5>>}]

\* The ids of the API keys in the store, and one that no key has.
KeyIdInputs == {apiKeys[k].id : k \in DOMAIN apiKeys} \cup {"key_0"}

\* The number of records in the tables of the accounts; the runs write at
\* most MaxAccountRecords of them and create each API key once.
AccountRecords ==
    Cardinality(DOMAIN users) + Cardinality(DOMAIN apiKeys) + Len(usageMetrics)

\* Policy swaps: operations one after the other, with up to MaxUpdates
\* policy updates at any point, and an API key that may be created before
\* the first of them: it draws the id the first update would have drawn.
SwapNext ==
    \/ \E p \in Procs, c \in SwapClients, e \in Endpoints :
          started < MaxSwapRequests /\ NoneInFlight /\ Start(p, c, e)
    \/ \E p \in Procs : Step(p)
    \/ \E p \in Procs : Deliver(p)
    \/ \E configData \in SwapPolicyInputs :
          NoneInFlight /\ Len(installed) <= MaxUpdates /\ UpdateConfig(configData)
    \/ \E c \in SwapClients : NoneInFlight /\ BlockClient(c)
    \/ \E data \in InsertApiKeyInputs :
          /\ NoneInFlight /\ Fresh
          /\ AccountRecords < MaxAccountRecords /\ data.keyHash \notin DOMAIN apiKeys
          /\ CreateApiKey(data)
    \/ NoneInFlight /\ Cleanup
    \/ NoneInFlight /\ Tick(MaxSwapElapsed)

SwapSpec == Init /\ [][SwapNext]_vars

\* The store's operations: requests one after the other and, between them,
\* policy updates, blocks, cleanups, the deletion of a client's record and
\* the writes of users, API keys and usage records, which draw ids from
\* the counter the policies draw theirs from, and the marking of a key as
\* used.
StoreNext ==
    \/ \E p \in Procs, c \in Clients, e \in Endpoints :
          started < MaxStoreRequests /\ NoneInFlight /\ Start(p, c, e)
    \/ \E p \in Procs : Step(p)
    \/ \E p \in Procs : Deliver(p)
    \/ \E configData \in SwapPolicyInputs :
          NoneInFlight /\ Len(installed) <= MaxStoreUpdates /\ UpdateConfig(configData)
    \/ \E c \in Clients : NoneInFlight /\ BlockClient(c)
    \/ \E c \in Clients : NoneInFlight /\ DeleteActiveRateLimit(c)
    \/ \E userData \in UpsertUserInputs :
          NoneInFlight /\ AccountRecords < MaxAccountRecords /\ UpsertUser(userData)
    \/ \E data \in InsertApiKeyInputs :
          /\ NoneInFlight
          /\ AccountRecords < MaxAccountRecords /\ data.keyHash \notin DOMAIN apiKeys
          /\ CreateApiKey(data)
    \/ \E metrics \in UsageInputs :
          NoneInFlight /\ AccountRecords < MaxAccountRecords /\ RecordUsage(metrics)
    \/ \E keyId \in KeyIdInputs : NoneInFlight /\ UpdateApiKeyUsage(keyId)
    \/ NoneInFlight /\ Cleanup
    \/ NoneInFlight /\ Tick(MaxStoreElapsed)

StoreSpec == Init /\ [][StoreNext]_vars

\* Concurrent operations: calls interleave with each other and with the
\* other operations at every await.
ConcNext ==
    \/ \E p \in Procs, c \in Clients, e \in Endpoints :
          started < MaxConcRequests /\ Start(p, c, e)
    \/ \E p \in Procs : Step(p)
    \/ \E p \in Procs : Deliver(p)
    \/ \E configData \in ConcPolicyInputs :
          Len(installed) <= MaxConcUpdates /\ UpdateConfig(configData)
    \/ \E c \in Clients : BlockClient(c)
    \/ Cleanup
    \/ Tick(MaxConcElapsed)

ConcSpec == Init /\ [][ConcNext]_vars

\* The policies under which the violation log is filled, and an inactive
\* one, under which every call fails and nothing is logged.
CapPolicyInputs ==
    [algorithm : Algorithms, requestLimit : {1}, timeWindow : {<<"2", "s">>},
     isActive : {TRUE}]
    \cup {[algorithm |-> "fixed-window", requestLimit |-> 1,
            timeWindow |-> <<"2", "s">>, isActive |-> FALSE]}

\* A long run of one client: enough requests to fill the violation log
\* beyond its cap.
CapNext ==
    \/ \E p \in Procs, c \in SwapClients, e \in Endpoints :
          started < MaxCapRequests /\ NoneInFlight /\ Start(p, c, e)
    \/ \E p \in Procs : Step(p)
    \/ \E p \in Procs : Deliver(p)
    \/ \E configData \in CapPolicyInputs :
          NoneInFlight /\ Fresh /\ UpdateConfig(configData)
    \/ NoneInFlight /\ Tick(MaxCapElapsed)

CapSpec == Init /\ [][CapNext]_vars

\* The policies under which violations are logged before an administrator
\* blocks and the policy is changed, and an inactive one.
BlockPolicyInputs ==
    [algorithm : Algorithms, requestLimit : {1}, timeWindow : {<<"1", "s">>},
     isActive : {TRUE}]
    \cup {[algorithm |-> "fixed-window", requestLimit |-> 1,
            timeWindow |-> <<"1", "s">>, isActive |-> FALSE]}

\* Blocks among the other operations: requests of two clients one after
\* the other and, at any point between them, blocks, cleanups and up to
\* MaxBlockUpdates policy updates.
BlockNext ==
    \/ \E p \in Procs, c \in Clients, e \in Endpoints :
          started < MaxBlockRequests /\ NoneInFlight /\ Start(p, c, e)
    \/ \E p \in Procs : Step(p)
    \/ \E p \in Procs : Deliver(p)
    \/ \E configData \in BlockPolicyInputs :
          NoneInFlight /\ Len(installed) <= MaxBlockUpdates /\ UpdateConfig(configData)
    \/ \E c \in Clients : NoneInFlight /\ BlockClient(c)
    \/ NoneInFlight /\ Cleanup
    \/ NoneInFlight /\ Tick(MaxBlockElapsed)

BlockSpec == Init /\ [][BlockNext]_vars

\* The policies installed while the calls of one client overlap: a
\* limit of 1 that the second call exceeds, a limit of 2 under which two
\* overlapping calls are both allowed, and an inactive policy.
RacePolicyInputs ==
    [algorithm : {"sliding-window", "token-bucket"}, requestLimit : {1},
     timeWindow : {<<"1", "s">>}, isActive : {TRUE}]
    \cup {[algorithm |-> "fixed-window", requestLimit |-> 2,
            timeWindow |-> <<"1", "s">>, isActive |-> TRUE],
           [algorithm |-> "fixed-window", requestLimit |-> 1,
            timeWindow |-> <<"1", "s">>, isActive |-> FALSE]}

\* No two calls are in flight.
AtMostOneInFlight ==
    \A q, r \in Procs : q # r => (calls[q].pc = "idle" \/ calls[r].pc = "idle")

\* Overlapping calls of one client: a call starts while at most one other
\* is in flight, and policy updates and the clock interleave at every await.
RaceNext ==
    \/ \E p \in Procs, c \in SwapClients, e \in Endpoints :
          started < MaxRaceRequests /\ AtMostOneInFlight /\ Start(p, c, e)
    \/ \E p \in Procs : Step(p)
    \/ \E p \in Procs : Deliver(p)
    \/ \E configData \in RacePolicyInputs :
          Len(installed) <= MaxRaceUpdates /\ UpdateConfig(configData)
    \/ Tick(MaxRaceElapsed)

RaceSpec == Init /\ [][RaceNext]_vars

\* The policies under which store operations fail, and an inactive one,
\* under which a call fails before it reaches them.
FaultPolicyInputs ==
    [algorithm : Algorithms, requestLimit : {1}, timeWindow : {<<"1", "s">>},
     isActive : {TRUE}]
    \cup {[algorithm |-> "fixed-window", requestLimit |-> 1,
            timeWindow |-> <<"1", "s">>, isActive |-> FALSE]}

\* A store that may fail: the calls of one client, one after the other,
\* any of which may meet a counter or violation-log operation that
\* rejects.
FaultNext ==
    \/ \E p \in Procs, c \in SwapClients, e \in Endpoints :
          started < MaxFaultRequests /\ NoneInFlight /\ Start(p, c, e)
    \/ \E p \in Procs : Step(p)
    \/ \E p \in Procs : Reject(p)
    \/ \E p \in Procs : Deliver(p)
    \/ \E configData \in FaultPolicyInputs :
          NoneInFlight /\ Fresh /\ UpdateConfig(configData)
    \/ NoneInFlight /\ Tick(MaxFaultElapsed)

FaultSpec == Init /\ [][FaultNext]_vars

\* The policies under which the calls of one client overlap from the first
\* call on.
OverlapPolicyInputs ==
    [algorithm : Algorithms, requestLimit : Limits, timeWindow : {<<"1", "s">>},
     isActive : {TRUE}]
    \cup {[algorithm |-> "sliding-window", requestLimit |-> 1,
            timeWindow |-> <<"1", "s">>, isActive |-> FALSE]}

\* Overlapping calls of one client under one policy: the policy is stored
\* before the first call, a call starts while at most one other is in
\* flight, and the clock interleaves at every await.
OverlapNext ==
    \/ \E p \in Procs, c \in SwapClients, e \in Endpoints :
          started < MaxOverlapRequests /\ AtMostOneInFlight /\ Start(p, c, e)
    \/ \E p \in Procs : Step(p)
    \/ \E p \in Procs : Deliver(p)
    \/ \E configData \in OverlapPolicyInputs : Fresh /\ UpdateConfig(configData)
    \/ Tick(MaxOverlapElapsed)

OverlapSpec == Init /\ [][OverlapNext]_vars

\* The policies the protected routes are served under: the three
\* algorithms, an inactive policy, an unregistered algorithm, and a policy
\* whose timeWindow has a quantity that is no number.
HttpPolicyInputs ==
    [algorithm : Algorithms, requestLimit : {1}, timeWindow : {<<"1", "s">>},
     isActive : {TRUE}]
    \cup {[algorithm |-> "fixed-window", requestLimit |-> 1,
            timeWindow |-> <<"1", "s">>, isActive |-> FALSE],
           [algorithm |-> "leaky-bucket", requestLimit |-> 1,
            timeWindow |-> <<"1", "s">>, isActive |-> TRUE],
           [algorithm |-> "token-bucket", requestLimit |-> 1,
            timeWindow |-> <<"a", "s">>, isActive |-> TRUE]}

\* Protected HTTP requests, one after the other, through the middleware.
HttpNext ==
    \/ \E p \in Procs, c \in Clients, e \in Endpoints :
          started < MaxHttpRequests /\ NoneInFlight /\ MwStart(p, c, e)
    \/ \E p \in Procs : MwStep(p)
    \/ \E p \in Procs : Step(p)
    \/ \E configData \in HttpPolicyInputs :
          NoneInFlight /\ Fresh /\ UpdateConfig(configData)
    \/ NoneInFlight /\ Tick(MaxHttpElapsed)

HttpSpec == Init /\ [][HttpNext]_vars

\* The values a header or property of a request takes: undefined, the
\* empty string, and strings with and without commas, padding and the
\* bearer prefix.
Undefined == <<>>
Str(s) == <<s>>

IpInputs == {Undefined, Str(<<>>), Str(<<"9">>)}
ForwardedInputs ==
    {Undefined, Str(<<>>), Str(<<" ">>), Str(<<"8">>),
     Str(<<" ", "8", " ", ",", "7">>), Str(<<",", "7">>)}
RealIpInputs == {Undefined, Str(<<>>), Str(<<"6">>)}
RemoteAddressInputs == {Undefined, Str(<<"5">>)}
ApiKeyInputs == {Undefined, Str(<<>>), Str(<<"k">>)}
AuthorizationInputs ==
    {Undefined, Str(BearerPrefix \o <<"t">>), Str(BearerPrefix),
     Str(<<"B", "a", "s", "i", "c", " ", "t">>),
     Str(<<"x">> \o BearerPrefix \o BearerPrefix \o <<"t">>)}
UserInputs == {Undefined, Str(<<"u">>)}
UserIdHeaderInputs == {Undefined, Str(<<>>), Str(<<"v">>)}
PlainUserIdHeaderInputs == {Undefined, Str(<<"w">>)}

RequestInputs ==
    [ip : IpInputs, xForwardedFor : ForwardedInputs, xRealIp : RealIpInputs,
     remoteAddress : RemoteAddressInputs, xApiKey : ApiKeyInputs,
     authorization : AuthorizationInputs, userId : UserInputs,
     xUserIdHeader : UserIdHeaderInputs, userIdHeader : PlainUserIdHeaderInputs]

\* The three modes getClientId names, and two it does not.
KnownModes == {"ip", "api-key", "user-id"}
ModeInputs == KnownModes \cup {"session", ""}

\* rateLimiterService.getClientId(req, config) is called.
ResolveClient ==
    /\ probe # Unprobed
    /\ probe.key = <<>>
    /\ probe' = [probe EXCEPT !.key = <<getClientId(probe.req, probe.config)>>]
    /\ UNCHANGED service

IdentInit ==
    /\ Constructed
    /\ probe \in [req : RequestInputs,
                  config : [clientIdType : ModeInputs],
                  key : {<<>>}]

IdentNext == ResolveClient

\* Identity resolution: one request under one clientIdType, resolved.
IdentSpec == IdentInit /\ [][IdentNext]_vars

\* The characters of the timeWindow strings parsed: digits, the four units,
\* a letter that is neither, and what parseInt reads besides digits (a
\* sign, white space, a line terminator and the x of the hexadecimal
\* prefix).
WindowChars ==
    {"0", "1", "2", "s", "m", "h", "d", "a", "x", "-", "+", " ", "\r"}

MaxWindowLen == 3

\* Quantities with the hexadecimal prefix, which take more characters.
HexWindowInputs ==
    {<<"0", "x", "1", "s">>, <<"0", "X", "1", "0", "m">>,
     <<"0", "x", "a", "s">>, <<"-", "0", "x", "1", "s">>,
     <<" ", "0", "x", "2", "h">>, <<"0", "x", "x", "s">>}

\* Every string of up to MaxWindowLen of these characters, and the
\* hexadecimal ones.
TimeWindowInputs ==
    UNION {[1..n -> WindowChars] : n \in 0..MaxWindowLen} \cup HexWindowInputs

\* this.parseTimeWindow(config.timeWindow) is called, in any of the
\* three limiters: the three copies of the method are the same.
ParseWindow ==
    /\ probe # Unprobed
    /\ probe.windowMs = <<>>
    /\ probe' = [probe EXCEPT !.windowMs = <<parseTimeWindow(probe.timeWindow)>>]
    /\ UNCHANGED service

ParseInit ==
    /\ Constructed
    /\ probe \in [timeWindow : TimeWindowInputs, limiter : Algorithms,
                  windowMs : {<<>>}]

ParseNext == ParseWindow

\* Time-window parsing: one timeWindow string, parsed by one limiter.
ParseSpec == ParseInit /\ [][ParseNext]_vars

\* The policies installed before the clients send and then stop: each
\* algorithm with a window of one second and with a timeWindow whose
\* quantity is no number, and an inactive policy.
LivePolicyInputs ==
    [algorithm : Algorithms, requestLimit : Limits, timeWindow : {<<"1", "s">>},
     isActive : {TRUE}]
    \cup [algorithm : Algorithms, requestLimit : {1}, timeWindow : {<<"a", "s">>},
          isActive : {TRUE}]
    \cup {[algorithm |-> "fixed-window", requestLimit |-> 1,
            timeWindow |-> <<"1", "s">>, isActive |-> FALSE]}

\* The setInterval callback of lines 907-920: one period of the timer
\* passes and the callback runs cleanupExpiredLimits() at the instant it
\* fires; its getSystemStats() and broadcast change nothing.
LiveTick ==
    /\ clock' = clock + CleanupIntervalMs
    /\ activeLimits' = cleanupExpiredLimits(activeLimits, clock + CleanupIntervalMs)
    /\ UNCHANGED <<configs, currentId, installed, requestTimes, violations, stats,
                   calls, started, hist, adminBlocked, before, accounts, probe>>

\* The run is followed for MaxLiveElapsed milliseconds.
LiveTimeLeft == clock + CleanupIntervalMs <= StartClock + MaxLiveElapsed

\* Clients that stop: requests come only in the first stretch of the run,
\* under the default policy or one installed before the first request, and
\* administrators may block; from then on only the cleanup timer goes on,
\* period after period.
LiveNext ==
    \/ \E p \in Procs, c \in Clients, e \in Endpoints :
          /\ started < MaxLiveRequests
          /\ clock <= StartClock + MaxLiveRequestElapsed
          /\ NoneInFlight
          /\ Start(p, c, e)
    \/ \E p \in Procs : Step(p)
    \/ \E p \in Procs : Deliver(p)
    \/ \E configData \in LivePolicyInputs :
          NoneInFlight /\ Fresh /\ UpdateConfig(configData)
    \/ \E c \in Clients : NoneInFlight /\ BlockClient(c)
    \/ NoneInFlight /\ LiveTimeLeft /\ LiveTick

\* A call in flight is resumed at each of its awaits, whose promises the
\* store resolves at once.
Resumed == \E p \in Procs : Step(p) \/ Deliver(p)

\* The event loop resumes the calls in flight, and setInterval fires the
\* cleanup period after period.
LiveSpec ==
    /\ Init
    /\ [][LiveNext]_vars
    /\ WF_vars(Resumed)
    /\ WF_vars(NoneInFlight /\ LiveTimeLeft /\ LiveTick)

----------------------------------------------------------------------------
(* Reading the record of returned decisions *)

\* The calls of one client, oldest first.
CallsOf(c) == SelectSeq(hist, LAMBDA h : h.clientId = c)

\* The policy a call was evaluated under.
PolicyOf(h) == installed[h.epoch]

\* The call returned a decision made by the given algorithm.
DecidedBy(h, algorithm) ==
    IsDecision(h.result) /\ PolicyOf(h).algorithm = algorithm

LastCall == hist[Len(hist)]

\* This step returns a call, or a request, to its caller.
CallStep == Len(hist') = Len(hist) + 1

\* The slot of the invocation that this step returns.
Returning == CHOOSE p \in Procs : calls[p].pc # "idle" /\ calls'[p].pc = "idle"

\* The tables as the invocation that this step returns found them when it
\* began.
AtStart == before[Returning][1]

\* This step is a run of an invocation made for client c.
RunOf(c) ==
    \E p \in Procs :
       calls[p].pc # "idle" /\ calls'[p] # calls[p] /\ calls[p].clientId = c

\* What algorithm.checkLimit(clientId, config) of line 256 decides and
\* writes when it runs at time now on the given tables with nothing
\* between its awaits.
checkLimit(config, clientId, limits, rt, now) ==
    LET algorithm == algorithmsGet(config.algorithm)[1]
    IN  CASE algorithm = "token-bucket" ->
                TokenBucketCheck(clientId, config, getActiveRateLimit(limits, clientId), now)
          [] algorithm = "sliding-window" ->
                SlidingWindowCheck(clientId, config, rt, now)
          [] algorithm = "fixed-window" ->
                FixedWindowCheck(clientId, config, getActiveRateLimit(limits, clientId), now)

----------------------------------------------------------------------------
(* C1: fixed window, from an empty table: while the requests of one client *)
(* all arrive within a span shorter than the window, the first             *)
(* requestLimit of them are allowed with remaining limit-1, ..., 0 and     *)
(* every later one is denied with remaining 0, whatever the arrival time   *)
(* of the first.                                                           *)

C1_FixedWindowBurstAsClaimed ==
    \A c \in Clients :
        LET H == CallsOf(c)
        IN  \A n \in 1..Len(H) :
                (/\ DecidedBy(H[n], "fixed-window")
                 /\ H[n].now - H[1].now < WindowMs(PolicyOf(H[n])))
                => LET L == PolicyOf(H[n]).requestLimit
                   IN  /\ H[n].result.allowed = (n <= L)
                       /\ H[n].result.remaining = IF n <= L THEN L - n ELSE 0

----------------------------------------------------------------------------
(* C2: sliding window: for every client and every instant t, at most       *)
(* requestLimit of the client's allowed requests arrived in (t - W, t].    *)
(* It is enough to take for t the arrival time of each allowed request.    *)

AllowedInWindow(H, j, windowMs) ==
    {i \in 1..j : /\ IsDecision(H[i].result)
                  /\ H[i].result.allowed
                  /\ H[i].now > H[j].now - windowMs}

C2_SlidingWindowStrict ==
    \A c \in Clients :
        LET H == CallsOf(c)
        IN  \A j \in 1..Len(H) :
                DecidedBy(H[j], "sliding-window")
                => /\ Cardinality(AllowedInWindow(H, j, WindowMs(PolicyOf(H[j]))))
                          <= PolicyOf(H[j]).requestLimit
                   \* the request after requestLimit rapid ones is denied
                   /\ (/\ j > PolicyOf(H[j]).requestLimit
                       /\ H[j].now - H[1].now < WindowMs(PolicyOf(H[j])))
                      => ~H[j].result.allowed

\* A client has had requestLimit requests allowed and the next one, inside
\* the same window, denied.
C2_Witness ==
    \E c \in Clients :
        LET H == CallsOf(c)
        IN  /\ Len(H) = 3
            /\ DecidedBy(H[3], "sliding-window")
            /\ PolicyOf(H[3]).requestLimit = 2
            /\ H[1].result.allowed /\ H[2].result.allowed
            /\ ~H[3].result.allowed
            /\ H[3].now > H[1].now

----------------------------------------------------------------------------
(* C3: sliding window: a request that comes a full window or more after    *)
(* the client's previous request (allowed or denied) is allowed; so is the *)
(* client's first request.  And denied requests never extend the time the  *)
(* client stays blocked: a request is allowed whenever fewer than           *)
(* requestLimit of the client's earlier allowed requests came within the   *)
(* last window, however many requests were denied in between.              *)

\* The earlier calls of the client that were allowed within the window
\* that ends at the j-th call.
AllowedWithinWindow(H, j) ==
    {k \in 1..(j - 1) :
        /\ IsDecision(H[k].result)
        /\ H[k].result.allowed
        /\ H[k].now > H[j].now - WindowMs(PolicyOf(H[j]))}

C3_SlidingWindowRecovery ==
    \A c \in Clients :
        LET H == CallsOf(c)
        IN  \A j \in 1..Len(H) :
                /\ (/\ DecidedBy(H[j], "sliding-window")
                    /\ j > 1 => H[j].now - H[j - 1].now >= WindowMs(PolicyOf(H[j])))
                   => H[j].result.allowed
                /\ (/\ DecidedBy(H[j], "sliding-window")
                    /\ Cardinality(AllowedWithinWindow(H, j))
                          < PolicyOf(H[j]).requestLimit)
                   => H[j].result.allowed

\* A client was allowed and then denied, and was allowed again a full
\* window after the allowed request, less than a window after the denied
\* one.
C3_Witness ==
    \E c \in Clients :
        LET H == CallsOf(c)
        IN  /\ Len(H) = 3
            /\ DecidedBy(H[3], "sliding-window")
            /\ H[1].result.allowed
            /\ ~H[2].result.allowed
            /\ H[3].now - H[1].now >= WindowMs(PolicyOf(H[3]))
            /\ H[3].now - H[2].now < WindowMs(PolicyOf(H[3]))
            /\ H[3].now > H[2].now
            /\ H[3].result.allowed

----------------------------------------------------------------------------
(* C4: token bucket: the requests of a client answered with the same       *)
(* resetTime form one refill period; a request made before the resetTime   *)
(* of the previous one belongs to the same period; in a period the k-th    *)
(* request is allowed exactly when k <= requestLimit, so that at most      *)
(* requestLimit are allowed and nothing is allowed after a denial.         *)

\* The position of call j among the calls of its refill period.
RankInPeriod(H, j) ==
    Cardinality({i \in 1..j : /\ IsDecision(H[i].result)
                              /\ H[i].result.resetTime = H[j].result.resetTime})

C4_TokenBucketBurst ==
    \A c \in Clients :
        LET H == CallsOf(c)
        IN  \A j \in 1..Len(H) :
                DecidedBy(H[j], "token-bucket")
                => /\ H[j].now < H[j].result.resetTime
                   /\ H[j].result.allowed
                         = (RankInPeriod(H, j) <= PolicyOf(H[j]).requestLimit)
                   /\ (j > 1 /\ H[j].now < H[j - 1].result.resetTime)
                      => H[j].result.resetTime = H[j - 1].result.resetTime

\* A bucket of two tokens was emptied, then a request denied, later in the
\* same period.
C4_Witness ==
    \E c \in Clients :
        LET H == CallsOf(c)
        IN  /\ Len(H) = 3
            /\ DecidedBy(H[3], "token-bucket")
            /\ PolicyOf(H[3]).requestLimit = 2
            /\ H[2].result.allowed
            /\ ~H[3].result.allowed
            /\ H[3].now > H[1].now
            /\ H[3].result.resetTime = H[1].result.resetTime

----------------------------------------------------------------------------
(* C5: a call for one client leaves every other client's store record and  *)
(* timestamp list as they were, and so leaves unchanged the decision the   *)
(* other client would get.                                                 *)

\* What the algorithms keep about a client.
ClientState(limits, rt, c) ==
    [limit |-> getActiveRateLimit(limits, c), times |-> TimesOf(rt, c)]

\* The decision client c would get now under the active policy.
WouldDecide(cfgs, limits, rt, c, now) ==
    checkLimit(getRateLimitConfig(cfgs)[1], c, limits, rt, now).result

C5_Isolation ==
    [][CallStep =>
         \A b \in Clients \ {LastCall'.clientId} :
            /\ ClientState(activeLimits', requestTimes', b)
                  = ClientState(AtStart.activeLimits, AtStart.requestTimes, b)
            /\ IsDecision(LastCall'.result)
               => WouldDecide(configs', activeLimits', requestTimes', b, clock')
                     = WouldDecide(configs, AtStart.activeLimits,
                                   AtStart.requestTimes, b, clock)]_vars

\* Client a has just been denied while client b holds a record and, under
\* sliding window, a timestamp list.
C5_Witness ==
    /\ Len(hist) >= 2
    /\ LastCall.clientId = "a"
    /\ DecidedBy(LastCall, "sliding-window")
    /\ ~LastCall.result.allowed
    /\ "b" \in DOMAIN activeLimits
    /\ TimesOf(requestTimes, "b") # <<>>

----------------------------------------------------------------------------
(* C6: after any policy update a client that was denied under the previous *)
(* policy is allowed on its next request.                                  *)

C6_SwapResetsAsClaimed ==
    \A c \in Clients :
        LET H == CallsOf(c)
        IN  \A j \in 2..Len(H) :
                (/\ IsDecision(H[j - 1].result)
                 /\ ~H[j - 1].result.allowed
                 /\ H[j].epoch > H[j - 1].epoch
                 /\ IsDecision(H[j].result))
                => H[j].result.allowed

----------------------------------------------------------------------------
(* C7: every step that stores a policy is one whole                        *)
(* updateRateLimitConfig: in that same step every older policy becomes     *)
(* inactive, the new one is stored, as the last of the stored policies,    *)
(* and the state table is emptied, so that activeClients is 0 when it      *)
(* returns.                                                                *)

C7_SwapClearsTable ==
    [][installed' # installed =>
         LET new == installed'[Len(installed')]
         IN  /\ configs'[Len(configs')] = new
             /\ \A i \in 1..Len(configs) :
                   configs[i].id # new.id
                   => configs'[i] = [configs[i] EXCEPT !.isActive = FALSE]
             /\ \A i \in 1..(Len(configs') - 1) : ~configs'[i].isActive
             /\ DOMAIN activeLimits' = {}
             /\ getSystemStats(stats', activeLimits').activeClients = 0]_vars

\* A second policy update has just emptied a table in which the last
\* caller, denied, had a record.
C7_Witness ==
    /\ Len(installed) = 3
    /\ hist # <<>>
    /\ IsDecision(LastCall.result)
    /\ LastCall.epoch = 2
    /\ DecidedBy(LastCall, "fixed-window")
    /\ ~LastCall.result.allowed
    /\ DOMAIN activeLimits = {}

----------------------------------------------------------------------------
(* C8: calls made one after the other: a call that returns a decision      *)
(* raises totalRequests by exactly 1, and raises rateLimited by exactly 1  *)
(* when the decision is a denial and by 0 when it is not.                  *)

C8_CountersPerCall ==
    [][(CallStep /\ IsDecision(LastCall'.result)) =>
         /\ stats'.totalRequests = AtStart.stats.totalRequests + 1
         /\ stats'.rateLimitedRequests
               = AtStart.stats.rateLimitedRequests
                 + (IF LastCall'.result.allowed THEN 0 ELSE 1)]_vars

\* Allowed and denied calls have both been counted.
C8_Witness ==
    /\ Len(hist) = 3
    /\ \A i \in 1..3 : IsDecision(hist[i].result)
    /\ hist[1].result.allowed
    /\ ~hist[2].result.allowed
    /\ ~hist[3].result.allowed
    /\ stats.totalRequests = 3
    /\ stats.rateLimitedRequests = 2

----------------------------------------------------------------------------
(* C9: a denied call puts exactly one record at the head of the violation  *)
(* log, with the call's clientId and endpoint and isBlocked = false, the   *)
(* older records following in their order; an allowed call leaves the log  *)
(* as it is.                                                               *)

C9_ViolationIffDenied ==
    [][(CallStep /\ IsDecision(LastCall'.result)) =>
         IF LastCall'.result.allowed
         THEN violations' = AtStart.violations
         ELSE /\ Len(violations') = Len(AtStart.violations) + 1
              /\ violations'[1].clientId = LastCall'.clientId
              /\ violations'[1].endpoint = LastCall'.endpoint
              /\ violations'[1].isBlocked = FALSE
              /\ \A i \in 1..Len(AtStart.violations) :
                    violations'[i + 1] = AtStart.violations[i]]_vars

\* A denial has been logged ahead of an older record that was marked
\* blocked in the meantime.
C9_Witness ==
    /\ Len(violations) = 2
    /\ hist # <<>>
    /\ IsDecision(LastCall.result)
    /\ ~LastCall.result.allowed
    /\ violations[1].clientId = LastCall.clientId
    /\ ~violations[1].isBlocked
    /\ violations[2].isBlocked

----------------------------------------------------------------------------
(* C10: concurrent calls from distinct clients, none denied: once all have *)
(* returned, totalRequests has grown by the number of calls.               *)

DistinctClients == \A i, j \in 1..Len(hist) : i # j => hist[i].clientId # hist[j].clientId

C10_NoLostUpdatesAsClaimed ==
    (/\ NoneInFlight
     /\ \A i \in 1..Len(hist) : IsDecision(hist[i].result) /\ hist[i].result.allowed
     /\ DistinctClients)
    => stats.totalRequests = Len(hist)

----------------------------------------------------------------------------
(* C11: concurrent calls of one client inside one window behave as some    *)
(* serial order of them would: under one policy, the allowed decisions of  *)
(* one client that name the same window (the same resetTime) number at     *)
(* most requestLimit.                                                      *)

\* The allowed calls of client c under the policy and in the window of h.
AllowedWith(h) ==
    {j \in 1..Len(hist) :
        /\ hist[j].clientId = h.clientId
        /\ hist[j].epoch = h.epoch
        /\ IsDecision(hist[j].result)
        /\ hist[j].result.allowed
        /\ hist[j].result.resetTime = h.result.resetTime}

C11_PerClientSerialAsClaimed ==
    \A i \in 1..Len(hist) :
        (IsDecision(hist[i].result) /\ hist[i].result.allowed)
        => Cardinality(AllowedWith(hist[i])) <= PolicyOf(hist[i]).requestLimit

----------------------------------------------------------------------------
(* C12: a policy swap is atomic with respect to calls in flight: a call    *)
(* that loaded its policy before the swap writes no record into the state  *)
(* table after the swap has cleared it, so every step of a call that       *)
(* changes the table belongs to a call holding the current policy.         *)

\* The step is a run of call p that writes the state table.
WritesTable(p) ==
    /\ calls[p].pc # "idle"
    /\ calls'[p] # calls[p]
    /\ activeLimits' # activeLimits

C12_SwapAtomicAsClaimed ==
    [][\A p \in Procs : WritesTable(p) => calls[p].epoch = Len(installed)]_vars

----------------------------------------------------------------------------
(* C13: the violation log never holds more than 100 records, and it is     *)
(* always the most recent denials, newest first: once more than 100        *)
(* violations have been created it is exactly the last 100 of them, the    *)
(* oldest having been dropped.                                             *)

\* The call in the slot has made its createViolation call and has not
\* returned yet.
HasLogged(p) ==
    /\ calls[p].pc \in {"await_violation", "await_stats_limited", "done"}
    /\ ~calls[p].result[1].allowed

\* The denied call in flight that has logged its violation, if there is
\* one.
LoggedInFlight ==
    LET logged == {p \in Procs : HasLogged(p)}
        p == CHOOSE q \in logged : TRUE
    IN  IF logged = {} THEN <<>>
        ELSE <<Returned(calls[p].clientId, calls[p].endpoint, calls[p].now,
                        calls[p].epoch, calls[p].result[1])>>

\* The denied calls, oldest first, the one in flight that has logged its
\* violation included: each made one createViolation call.
DeniedCalls ==
    SelectSeq(hist, LAMBDA h : IsDecision(h.result) /\ ~h.result.allowed)
       \o LoggedInFlight

C13_ViolationCap ==
    LET denied == DeniedCalls
        n == Len(denied)
    IN  /\ Len(violations) <= MaxViolations
        /\ Len(violations) = Min({n, MaxViolations})
        /\ \A i \in 1..Len(violations) :
              /\ violations[i].clientId = denied[n - i + 1].clientId
              /\ violations[i].endpoint = denied[n - i + 1].endpoint
              /\ violations[i].timestamp = denied[n - i + 1].now

\* More than 100 violations were created; the first one, made at an
\* earlier time than all those kept, is gone.
C13_Witness ==
    /\ Len(DeniedCalls) > MaxViolations
    /\ Len(violations) = MaxViolations
    /\ \A i \in 1..Len(violations) : violations[i].timestamp > DeniedCalls[1].now

----------------------------------------------------------------------------
(* C14: a decision carries retryAfter exactly when it is a denial, and     *)
(* retryAfter is then the whole number of seconds, at least 1, that        *)
(* rounds up the time from the call to the resetTime of the same decision. *)

C14_RetryAfter ==
    \A i \in 1..Len(hist) :
        LET h == hist[i]
            r == h.result
        IN  IsDecision(r) =>
              /\ ("retryAfter" \in DOMAIN r) <=> ~r.allowed
              /\ ~r.allowed =>
                    /\ r.retryAfter >= 1
                    /\ 1000 * (r.retryAfter - 1) < r.resetTime - h.now
                    /\ r.resetTime - h.now <= 1000 * r.retryAfter

\* A denial 1500 ms before the reset names 2 seconds; an allowed decision
\* names none.
C14_Witness ==
    /\ Len(hist) >= 2
    /\ \E i, j \in 1..Len(hist) :
          /\ IsDecision(hist[i].result)
          /\ ~hist[i].result.allowed
          /\ hist[i].result.resetTime - hist[i].now = 1500
          /\ hist[i].result.retryAfter = 2
          /\ IsDecision(hist[j].result)
          /\ hist[j].result.allowed

----------------------------------------------------------------------------
(* C15: every decision, whatever the algorithm, the policy changes and the *)
(* overlapping calls before it, has 0 <= remaining <= requestLimit - 1 for *)
(* the requestLimit of the policy the call loaded, and remaining = 0 when  *)
(* it is a denial.                                                         *)

C15_RemainingRange ==
    \A i \in 1..Len(hist) :
        LET r == hist[i].result
            requestLimit == PolicyOf(hist[i]).requestLimit
        IN  IsDecision(r) =>
              /\ r.remaining \in 0..(requestLimit - 1)
              /\ ~r.allowed => r.remaining = 0

\* Two overlapping calls under an installed limit-2 policy were both
\* decided on a table without the other's record.
C15_Witness ==
    /\ Len(hist) = 2
    /\ Len(installed) = 2
    /\ \A i \in 1..2 :
          /\ hist[i].epoch = 2
          /\ IsDecision(hist[i].result)
          /\ hist[i].result.allowed
          /\ hist[i].result.remaining = 1
    /\ installed[2].requestLimit = 2

----------------------------------------------------------------------------
(* C16: while no stored policy is active, a checkRateLimit call fails with *)
(* the error 'No rate limit configuration found' and leaves the state      *)
(* table, the sliding-window lists, both counters and the violation log as *)
(* they were.                                                              *)

C16_NoActivePolicy ==
    [][(CallStep /\ \A i \in 1..Len(configs) : ~configs[i].isActive) =>
         /\ LastCall'.result = NoConfigError
         /\ Found' = AtStart]_vars

\* A call has failed after an inactive policy replaced one under which
\* requests were counted, listed and denied.
C16_Witness ==
    /\ hist # <<>>
    /\ LastCall.result = NoConfigError
    /\ ~configs[Len(configs)].isActive
    /\ requestTimes # EmptyMap
    /\ violations # <<>>
    /\ stats.totalRequests = Len(hist) - 1
    /\ stats.rateLimitedRequests >= 1

----------------------------------------------------------------------------
(* C17: while the active policy names an algorithm other than the three    *)
(* registered ones, a checkRateLimit call fails with the error 'Unknown    *)
(* algorithm', no limiter evaluates it, and the state table, the           *)
(* sliding-window lists, both counters and the violation log stay as they  *)
(* were.                                                                   *)

\* The policy stored last is active and names no registered algorithm.
UnknownAlgorithmActive ==
    /\ configs[Len(configs)].isActive
    /\ configs[Len(configs)].algorithm \notin Algorithms

C17_UnknownAlgorithm ==
    [][(CallStep /\ UnknownAlgorithmActive) =>
         /\ LastCall'.result = UnknownAlgorithmError
         /\ Found' = AtStart]_vars

\* A call has failed under the unregistered algorithm after requests were
\* counted, listed and denied under a registered one.
C17_Witness ==
    /\ hist # <<>>
    /\ LastCall.result = UnknownAlgorithmError
    /\ UnknownAlgorithmActive
    /\ requestTimes # EmptyMap
    /\ violations # <<>>
    /\ stats.totalRequests = Len(hist) - 1
    /\ stats.rateLimitedRequests >= 1

----------------------------------------------------------------------------
(* C18: at most one stored policy is active, and once an active policy p   *)
(* has been installed every policy stored before it is inactive and        *)
(* getRateLimitConfig returns exactly p.                                   *)

ActivePolicies == {i \in 1..Len(configs) : configs[i].isActive}

C18_SingleActivePolicy ==
    /\ Cardinality(ActivePolicies) <= 1
    /\ configs[Len(configs)].isActive =>
          /\ ActivePolicies = {Len(configs)}
          /\ getRateLimitConfig(configs) = <<configs[Len(configs)]>>

\* The second installed policy is active; the first installed one decided
\* a call while it was active and is inactive now.
C18_Witness ==
    /\ Len(installed) = 3
    /\ Len(configs) >= 2
    /\ configs[Len(configs)].isActive
    /\ ~configs[Len(configs) - 1].isActive
    /\ configs[Len(configs)] = installed[3]
    /\ installed[2].algorithm # installed[3].algorithm
    /\ \E i \in 1..Len(hist) : hist[i].epoch = 2 /\ IsDecision(hist[i].result)

----------------------------------------------------------------------------
(* C19: in every state, the activeClients value that getSystemStats        *)
(* reports is the number of records in the state table.                    *)

C19_ActiveClients ==
    getSystemStats(stats, activeLimits).activeClients
       = Cardinality(DOMAIN activeLimits)

\* Both clients have been served and the record of one of them has been
\* removed since: one active client is reported.
C19_Witness ==
    /\ Len(installed) = 1
    /\ \E c, d \in Clients :
          /\ c # d
          /\ CallsOf(c) # <<>>
          /\ c \notin DOMAIN activeLimits
          /\ \A i \in 1..Len(hist) : hist[i].result.resetTime > clock
          /\ d \in DOMAIN activeLimits
    /\ getSystemStats(stats, activeLimits).activeClients = 1

----------------------------------------------------------------------------
(* C20: blockClient(c) on an existing record keeps the record and sets its *)
(* status to blocked, and the status stays blocked, whatever calls c makes,*)
(* until the record's resetTime has passed or the policy changes.          *)

C20_BlockFreezesAsClaimed ==
    \A c \in DOMAIN adminBlocked :
        clock < adminBlocked[c] =>
           /\ c \in DOMAIN activeLimits
           /\ activeLimits[c].status = "blocked"

----------------------------------------------------------------------------
(* C21: the isBlocked flag of a logged violation changes only from false   *)
(* to true, and only in a blockClient step for the violation's own client: *)
(* a step that changes it is no checkRateLimit call, no policy update and  *)
(* no cleanup, and leaves the violations of every other client as they     *)
(* were.                                                                   *)

C21_IsBlockedOnlyByBlock ==
    [][LET k == Len(violations') - Len(violations)
       IN  /\ k \in {0, 1}
           /\ \A i \in 1..Len(violations) :
                 violations'[i + k].isBlocked # violations[i].isBlocked =>
                    /\ ~violations[i].isBlocked
                    /\ violations'[i + k].isBlocked
                    /\ calls' = calls
                    /\ installed' = installed
                    /\ DOMAIN activeLimits' = DOMAIN activeLimits
                    /\ \A j \in 1..Len(violations) :
                          violations[j].clientId # violations[i].clientId
                             => violations'[j] = violations[j]]_vars

\* Both clients have a logged violation; the one of the blocked client is
\* marked and the one of the other client is not, and both were logged
\* under a policy that has been replaced since.
C21_Witness ==
    /\ Len(violations) = 2
    /\ violations[1].clientId # violations[2].clientId
    /\ \E i, j \in 1..2 : violations[i].isBlocked /\ ~violations[j].isBlocked
    /\ Len(installed) = 3
    /\ \A i \in 1..Len(hist) : hist[i].epoch = 2
    /\ Cardinality({i \in 1..Len(hist) :
                       IsDecision(hist[i].result) /\ ~hist[i].result.allowed}) = 2

----------------------------------------------------------------------------
(* C22: when a request of a client is denied with resetTime R, the policy  *)
(* is not changed afterwards and the client's next request comes at R or   *)
(* later, that request is allowed.                                         *)

C22_RetryPromiseAsClaimed ==
    \A c \in Clients :
        LET s == CallsOf(c)
        IN  \A i \in 1..(Len(s) - 1) :
               (/\ IsDecision(s[i].result)
                /\ ~s[i].result.allowed
                /\ s[i + 1].epoch = s[i].epoch
                /\ s[i + 1].now >= s[i].result.resetTime)
               => (IsDecision(s[i + 1].result) /\ s[i + 1].result.allowed)

----------------------------------------------------------------------------
(* C23: a counter or violation-log update that fails does not cost the     *)
(* caller the decision: every call made under an active policy with a      *)
(* registered algorithm returns the algorithm's allow/deny decision.       *)

C23_BestEffortAsClaimed ==
    [][(CallStep /\ ConfigError(getRateLimitConfig(configs)) = <<>>)
          => IsDecision(LastCall'.result)]_vars

----------------------------------------------------------------------------
(* C24: a fixed-window request of a client with no record, or with a       *)
(* record whose resetTime has passed, is allowed with remaining =          *)
(* requestLimit - 1 and starts a window anchored at its arrival: the       *)
(* record has requestCount 1, status active and resetTime = now + windowMs.*)

\* In the table the client has no record, or one whose resetTime has
\* passed.
StartsWindow(limits, c, now) ==
    c \notin DOMAIN limits \/ limits[c].resetTime <= now

C24_FixedWindowAnchorAsClaimed ==
    [][(/\ CallStep
        /\ DecidedBy(LastCall', "fixed-window")
        /\ StartsWindow(AtStart.activeLimits, LastCall'.clientId, clock)) =>
         LET c == LastCall'.clientId
             policy == PolicyOf(LastCall')
         IN  /\ LastCall'.result.allowed
             /\ LastCall'.result.remaining = policy.requestLimit - 1
             /\ LastCall'.result.resetTime = clock + WindowMs(policy)
             /\ activeLimits'[c].requestCount = 1
             /\ activeLimits'[c].status = "active"
             /\ activeLimits'[c].resetTime = clock + WindowMs(policy)]_vars

----------------------------------------------------------------------------
(* C25: under a fixed-window policy with limit L that does not change, at  *)
(* most L of the requests of a client that are evaluated against the same  *)
(* stored resetTime are allowed, and every decision's resetTime lies after *)
(* the request and at most windowMs after it.                              *)

C25_FixedWindowBound ==
    \A i \in 1..Len(hist) :
        DecidedBy(hist[i], "fixed-window") =>
           /\ hist[i].now < hist[i].result.resetTime
           /\ hist[i].result.resetTime <= hist[i].now + WindowMs(PolicyOf(hist[i]))
           /\ hist[i].result.allowed =>
                 Cardinality(AllowedWith(hist[i])) <= PolicyOf(hist[i]).requestLimit

\* One client under limit 2: two requests allowed and a third denied in one
\* window, and a fourth allowed in the next window.
C25_Witness ==
    /\ Len(hist) = 4
    /\ \A i \in 1..4 : DecidedBy(hist[i], "fixed-window")
    /\ \A i \in 1..4 : hist[i].clientId = hist[1].clientId
    /\ PolicyOf(hist[1]).requestLimit = 2
    /\ hist[1].result.allowed
    /\ hist[2].result.allowed
    /\ ~hist[3].result.allowed
    /\ hist[4].result.allowed
    /\ \A i \in 1..3 : hist[i].result.resetTime = hist[1].result.resetTime
    /\ hist[4].result.resetTime > hist[1].result.resetTime

----------------------------------------------------------------------------
(* C26: a denied fixed-window request adds 1 to the stored requestCount,   *)
(* keeps the stored resetTime and sets the status to blocked; so after any *)
(* fixed-window request the stored requestCount is the number of requests, *)
(* allowed and denied, the client has made in that window.                 *)

\* The calls of client c that were decided against the window ending at
\* resetTime, in the record as it is after the step.
CallsInWindow(c, resetTime) ==
    {j \in 1..Len(hist') :
        /\ hist'[j].clientId = c
        /\ DecidedBy(hist'[j], "fixed-window")
        /\ hist'[j].result.resetTime = resetTime}

C26_FixedWindowDenialTally ==
    [][(CallStep /\ DecidedBy(LastCall', "fixed-window")) =>
         LET c == LastCall'.clientId
         IN  /\ ~LastCall'.result.allowed =>
                   /\ activeLimits'[c].requestCount
                         = AtStart.activeLimits[c].requestCount + 1
                   /\ activeLimits'[c].resetTime = AtStart.activeLimits[c].resetTime
                   /\ activeLimits'[c].status = "blocked"
             /\ activeLimits'[c].requestCount
                   = Cardinality(CallsInWindow(c, activeLimits'[c].resetTime))]_vars

\* Limit 1: one request allowed and three denied in one window, all four
\* tallied.
C26_Witness ==
    /\ Len(hist) = 4
    /\ \A i \in 1..4 : DecidedBy(hist[i], "fixed-window")
    /\ \A i \in 1..4 : hist[i].clientId = "a"
    /\ hist[1].result.allowed
    /\ \A i \in 2..4 : ~hist[i].result.allowed
    /\ "a" \in DOMAIN activeLimits
    /\ activeLimits["a"].requestCount = 4
    /\ activeLimits["a"].status = "blocked"

----------------------------------------------------------------------------
(* C27: a denied token-bucket request leaves the client's stored record,   *)
(* with its requestCount, resetTime, status and lastRequest, exactly as it *)
(* was (and with it the whole state table).                                *)

C27_TokenBucketDenialFrame ==
    [][(/\ CallStep
        /\ DecidedBy(LastCall', "token-bucket")
        /\ ~LastCall'.result.allowed) =>
         /\ LastCall'.clientId \in DOMAIN AtStart.activeLimits
         /\ activeLimits' = AtStart.activeLimits]_vars

\* A token-bucket request has been denied later than the last write of the
\* client's record, which still carries the earlier lastRequest.
C27_Witness ==
    /\ hist # <<>>
    /\ DecidedBy(LastCall, "token-bucket")
    /\ ~LastCall.result.allowed
    /\ LastCall.clientId \in DOMAIN activeLimits
    /\ activeLimits[LastCall.clientId].lastRequest < LastCall.now
    /\ activeLimits[LastCall.clientId].requestCount
          = PolicyOf(LastCall).requestLimit

----------------------------------------------------------------------------
(* C28: under a token-bucket policy with limit L that does not change, a   *)
(* stored requestCount is always between 1 and L; while now < resetTime    *)
(* the record keeps its resetTime and its requestCount does not decrease;  *)
(* a record gets a new resetTime only by a request of its client arriving  *)
(* at now >= resetTime, which sets requestCount = 1 and resetTime = now +  *)
(* windowMs.                                                               *)

\* The active policy is a token-bucket policy.
TokenBucketActive ==
    /\ configs[Len(configs)].isActive
    /\ configs[Len(configs)].algorithm = "token-bucket"

C28_TokenBucketRefill ==
    [][(TokenBucketActive /\ installed' = installed) =>
         LET policy == configs[Len(configs)]
         IN  \A c \in DOMAIN activeLimits' :
                /\ activeLimits'[c].requestCount \in 1..policy.requestLimit
                /\ c \notin DOMAIN activeLimits =>
                      /\ activeLimits'[c].requestCount = 1
                      /\ activeLimits'[c].resetTime = clock + WindowMs(policy)
                /\ (c \in DOMAIN activeLimits
                      /\ clock < activeLimits[c].resetTime) =>
                      /\ activeLimits'[c].resetTime = activeLimits[c].resetTime
                      /\ activeLimits'[c].requestCount >= activeLimits[c].requestCount
                /\ (c \in DOMAIN activeLimits
                      /\ activeLimits'[c].resetTime # activeLimits[c].resetTime) =>
                      /\ RunOf(c)
                      /\ clock >= activeLimits[c].resetTime
                      /\ activeLimits'[c].requestCount = 1
                      /\ activeLimits'[c].resetTime = clock + WindowMs(policy)]_vars

\* Limit 2: the bucket was filled by two requests, refused a third, and
\* was refilled whole by a request after its resetTime.
C28_Witness ==
    /\ Len(hist) = 4
    /\ \A i \in 1..4 : DecidedBy(hist[i], "token-bucket") /\ hist[i].clientId = "a"
    /\ PolicyOf(hist[1]).requestLimit = 2
    /\ hist[1].result.allowed
    /\ hist[2].result.allowed
    /\ ~hist[3].result.allowed
    /\ hist[4].result.allowed
    /\ hist[4].now >= hist[3].result.resetTime
    /\ "a" \in DOMAIN activeLimits
    /\ activeLimits["a"].requestCount = 1
    /\ activeLimits["a"].resetTime = hist[4].now + WindowMs(PolicyOf(hist[4]))

----------------------------------------------------------------------------
(* C29: a denied sliding-window request leaves the client's timestamp list *)
(* as it was, and writes into the state table a record with status         *)
(* blocked, requestCount = (number of unexpired timestamps) + 1 and        *)
(* resetTime = (oldest unexpired timestamp) + windowMs, the resetTime the  *)
(* decision returns.                                                       *)

\* The timestamps that the lists hold for client c inside the window of a
\* request made now under the given policy, oldest first.
Unexpired(rt, c, policy) ==
    SelectSeq(TimesOf(rt, c), LAMBDA t : t > clock - WindowMs(policy))

C29_SlidingWindowDenial ==
    [][(/\ CallStep
        /\ DecidedBy(LastCall', "sliding-window")
        /\ ~LastCall'.result.allowed) =>
         LET c == LastCall'.clientId
             policy == PolicyOf(LastCall')
             unexpired == Unexpired(AtStart.requestTimes, c, policy)
         IN  /\ requestTimes' = AtStart.requestTimes
             /\ unexpired # <<>>
             /\ activeLimits'[c].status = "blocked"
             /\ activeLimits'[c].requestCount = Len(unexpired) + 1
             /\ activeLimits'[c].resetTime = unexpired[1] + WindowMs(policy)
             /\ LastCall'.result.resetTime = unexpired[1] + WindowMs(policy)]_vars

\* Limit 2: a request later than both listed timestamps has been denied;
\* the list is as it was and the record counts three.
C29_Witness ==
    /\ hist # <<>>
    /\ DecidedBy(LastCall, "sliding-window")
    /\ ~LastCall.result.allowed
    /\ Len(TimesOf(requestTimes, LastCall.clientId)) = 2
    /\ requestTimes[LastCall.clientId][1] < requestTimes[LastCall.clientId][2]
    /\ requestTimes[LastCall.clientId][2] < LastCall.now
    /\ LastCall.clientId \in DOMAIN activeLimits
    /\ activeLimits[LastCall.clientId].requestCount = 3
    /\ activeLimits[LastCall.clientId].resetTime
          = requestTimes[LastCall.clientId][1] + WindowMs(PolicyOf(LastCall))

----------------------------------------------------------------------------
(* C30, as claimed: after an allowed request the stored status is warning  *)
(* exactly when the stored count is at least 80% of requestLimit, and      *)
(* active otherwise; after a denied request the stored status is blocked.  *)

\* The classification of a consumed count.
Classified(requestCount, requestLimit) ==
    IF 10 * requestCount >= 8 * requestLimit THEN "warning" ELSE "active"

C30_StatusDerivedAsClaimed ==
    [][(CallStep /\ IsDecision(LastCall'.result)) =>
         LET c == LastCall'.clientId
             requestLimit == PolicyOf(LastCall').requestLimit
         IN  /\ c \in DOMAIN activeLimits'
             /\ activeLimits'[c].status =
                   IF LastCall'.result.allowed
                   THEN Classified(activeLimits'[c].requestCount, requestLimit)
                   ELSE "blocked"]_vars

(* C30, amended: a fixed-window or token-bucket request that starts a      *)
(* window stores status active whatever the limit; one that is allowed in  *)
(* a running window stores warning exactly when the new count is at least  *)
(* 80% of requestLimit, else active; an allowed sliding-window request     *)
(* stores warning exactly when remaining is at most 20% of requestLimit,   *)
(* else active; a denied fixed-window or sliding-window request stores     *)
(* blocked; a denied token-bucket request leaves the stored status as it   *)
(* was.                                                                    *)

C30_StatusAsStored ==
    [][(CallStep /\ IsDecision(LastCall'.result)) =>
         LET c == LastCall'.clientId
             policy == PolicyOf(LastCall')
             requestLimit == policy.requestLimit
             status == activeLimits'[c].status
             requestCount == activeLimits'[c].requestCount
         IN  /\ c \in DOMAIN activeLimits'
             /\ IF policy.algorithm = "sliding-window"
                THEN status =
                        IF ~LastCall'.result.allowed THEN "blocked"
                        ELSE IF 10 * (requestLimit - requestCount) <= 2 * requestLimit
                             THEN "warning" ELSE "active"
                ELSE IF StartsWindow(AtStart.activeLimits, c, clock)
                     THEN status = "active"
                ELSE IF LastCall'.result.allowed
                     THEN status = Classified(requestCount, requestLimit)
                ELSE IF policy.algorithm = "fixed-window" THEN status = "blocked"
                ELSE status = AtStart.activeLimits[c].status]_vars

\* A full token bucket of limit 2 has refused a request and its status is
\* still the warning of the last allowed one.
C30_Witness ==
    /\ hist # <<>>
    /\ DecidedBy(LastCall, "token-bucket")
    /\ ~LastCall.result.allowed
    /\ LastCall.clientId \in DOMAIN activeLimits
    /\ activeLimits[LastCall.clientId].status = "warning"
    /\ PolicyOf(LastCall).requestLimit = 2

----------------------------------------------------------------------------
(* C31: a cleanup removes from the state table every record whose          *)
(* resetTime is before the present instant and no other record; the        *)
(* records it keeps, the violation log, the stored policies, the           *)
(* timestamp lists and the two counters are as they were.                  *)

\* A step in which records leave the table while no call runs and no
\* policy update is made: a cleanup.
CleanupStep ==
    /\ calls' = calls
    /\ installed' = installed
    /\ DOMAIN activeLimits' # DOMAIN activeLimits

C31_CleanupFrame ==
    [][CleanupStep =>
          /\ DOMAIN activeLimits' \subseteq DOMAIN activeLimits
          /\ \A c \in DOMAIN activeLimits :
                c \in DOMAIN activeLimits' <=> activeLimits[c].resetTime >= clock
          /\ \A c \in DOMAIN activeLimits' : activeLimits'[c] = activeLimits[c]
          /\ violations' = violations
          /\ configs' = configs
          /\ requestTimes' = requestTimes
          /\ stats' = stats
          /\ clock' = clock]_vars

\* The record of one client has been removed, after a denial was logged,
\* while the record of another client, not yet expired, is still there.
C31_Witness ==
    \E c, d \in Clients :
       /\ c # d
       /\ CallsOf(c) # <<>>
       /\ c \notin DOMAIN activeLimits
       /\ d \in DOMAIN activeLimits
       /\ activeLimits[d].resetTime >= clock
       /\ violations # <<>>
       /\ stats.totalRequests >= 3
       /\ Len(installed) = 2

----------------------------------------------------------------------------
(* C32: once the clients have stopped sending, with the cleanup timer      *)
(* firing period after period, every record leaves the state table for     *)
(* good and activeClients counts none: whichever algorithm wrote the        *)
(* record, under whichever policy, allowed or denied, blocked by an         *)
(* administrator or not.                                                   *)

C32_ExpiryLivenessAsClaimed ==
    <>[](/\ activeLimits = EmptyMap
         /\ getSystemStats(stats, activeLimits).activeClients = 0)

\* What does hold: the records that stay for good are those whose
\* resetTime is no date; every other record leaves the table.
ExpiryOfDatedRecords ==
    <>[](\A c \in DOMAIN activeLimits : activeLimits[c].resetTime = NaN)

----------------------------------------------------------------------------
(* C33: cleanups between the requests change no decision. Every call of a  *)
(* run returns what it returns when the same calls, by the same clients at *)
(* the same instants under the same policy, are made one after the other   *)
(* from the empty tables with no cleanup in between.                       *)

\* The two tables after the first n calls of the run, made with no cleanup
\* between them. The policy is the one in force: it is stored before the
\* first call and not changed afterwards.
RECURSIVE TablesWithoutCleanup(_)
TablesWithoutCleanup(n) ==
    IF n = 0 THEN [limits |-> EmptyMap, rt |-> EmptyMap]
    ELSE LET earlier == TablesWithoutCleanup(n - 1)
             h == hist[n]
             config == getRateLimitConfig(configs)
             outcome == checkLimit(config[1], h.clientId, earlier.limits,
                                   earlier.rt, h.now)
         IN  IF ConfigError(config) # <<>> THEN earlier
             ELSE [limits |-> AfterUpsert(earlier.limits, outcome, h.now),
                   rt |-> AfterSet(earlier.rt, h.clientId, outcome)]

\* What the n-th call of the run returns when no cleanup has run.
ResultWithoutCleanup(n) ==
    LET earlier == TablesWithoutCleanup(n - 1)
        h == hist[n]
        config == getRateLimitConfig(configs)
    IN  IF ConfigError(config) # <<>> THEN ConfigError(config)[1]
        ELSE checkLimit(config[1], h.clientId, earlier.limits, earlier.rt,
                        h.now).result

\* The calls returned so far are never rewritten, so each of them is the
\* latest call in the state that follows it.
C33_CleanupTransparent ==
    hist # <<>> => LastCall.result = ResultWithoutCleanup(Len(hist))

\* A cleanup has removed the record of one client, and the other client,
\* denied at first, has been allowed again later.
C33_Witness ==
    \E c, d \in Clients :
       /\ c # d
       /\ CallsOf(d) # <<>>
       /\ IsDecision(CallsOf(d)[1].result)
       /\ d \notin DOMAIN activeLimits
       /\ \E i, j \in 1..Len(hist) :
             /\ i < j
             /\ hist[i].clientId = c /\ hist[j].clientId = c
             /\ IsDecision(hist[i].result) /\ ~hist[i].result.allowed
             /\ hist[j].result.allowed

----------------------------------------------------------------------------
(* C34: the sliding window reads, filters, tests and appends to a client's *)
(* timestamp list in one run between two awaits. While the calls of a      *)
(* client overlap under a sliding-window policy, the list never holds more *)
(* than requestLimit timestamps inside the window, and the timestamps it   *)
(* holds inside the window are exactly those of the accepted calls, in     *)
(* flight or returned, each as often as it was accepted.                   *)

\* The calls in flight that the sliding window has accepted at time t.
AcceptedInFlight(c, t) ==
    {p \in Procs :
        /\ calls[p].clientId = c
        /\ calls[p].result # <<>>
        /\ IsDecision(calls[p].result[1])
        /\ calls[p].result[1].allowed
        /\ calls[p].config[1].algorithm = "sliding-window"
        /\ calls[p].now = t}

\* The returned calls that the sliding window accepted at time t.
AcceptedReturned(c, t) ==
    {i \in 1..Len(hist) :
        /\ hist[i].clientId = c
        /\ DecidedBy(hist[i], "sliding-window")
        /\ hist[i].result.allowed
        /\ hist[i].now = t}

\* The places of a client's list that hold the timestamp t.
ListedAt(c, t) ==
    {k \in 1..Len(TimesOf(requestTimes, c)) : TimesOf(requestTimes, c)[k] = t}

\* The instants a timestamp of the run can carry.
Instants == {StartClock + k * TickMs : k \in 0..(MaxOverlapElapsed \div TickMs)}

C34_SlidingWindowAtomic ==
    \A c \in SwapClients :
       LET config == getRateLimitConfig(configs)
           times == TimesOf(requestTimes, c)
           inside == {k \in 1..Len(times) : times[k] > clock - WindowMs(config[1])}
       IN  (config # <<>> /\ config[1].algorithm = "sliding-window") =>
              /\ Cardinality(inside) <= config[1].requestLimit
              /\ \A k \in 1..Len(times) : times[k] \in Instants
              /\ \A t \in Instants :
                    t > clock - WindowMs(config[1]) =>
                       Cardinality(ListedAt(c, t)) =
                          Cardinality(AcceptedInFlight(c, t))
                             + Cardinality(AcceptedReturned(c, t))

\* Two calls overlap: one accepted, which filled the window, and one denied
\* meanwhile; the list holds the two accepted timestamps.
C34_Witness ==
    \E p, q \in Procs :
       /\ p # q
       /\ calls[p].pc \notin {"idle", "done"}
       /\ calls[q].pc \notin {"idle", "done"}
       /\ calls[p].result # <<>> /\ calls[q].result # <<>>
       /\ IsDecision(calls[p].result[1]) /\ IsDecision(calls[q].result[1])
       /\ calls[p].config[1].algorithm = "sliding-window"
       /\ calls[p].result[1].allowed
       /\ ~calls[q].result[1].allowed
       /\ Len(TimesOf(requestTimes, calls[p].clientId)) = 2
       /\ calls[p].now \in
             {TimesOf(requestTimes, calls[p].clientId)[k] : k \in 1..2}

----------------------------------------------------------------------------
(* C35: a protected HTTP request served through the rate limiting          *)
(* middleware adds exactly 1 to totalRequests, and a denied one adds       *)
(* exactly 1 to rateLimited and exactly one record to the violation log.   *)

C35_CountedOnceAsClaimed ==
    [][CallStep =>
          /\ stats'.totalRequests = AtStart.stats.totalRequests + 1
          /\ (IsDecision(LastCall'.result) /\ ~LastCall'.result.allowed) =>
                /\ stats'.rateLimitedRequests = AtStart.stats.rateLimitedRequests + 1
                /\ Len(violations') = Len(AtStart.violations) + 1]_vars

----------------------------------------------------------------------------
(* C36: in every step of every run, overlapping calls included,            *)
(* totalRequests and rateLimited do not decrease, and rateLimited is at    *)
(* most totalRequests.                                                     *)

C36_CountersMonotoneAsClaimed ==
    [][/\ stats'.totalRequests >= stats.totalRequests
       /\ stats'.rateLimitedRequests >= stats.rateLimitedRequests
       /\ stats'.rateLimitedRequests <= stats'.totalRequests]_vars

----------------------------------------------------------------------------
(* C37: under a clientIdType that is none of ip, api-key and user-id, the  *)
(* key resolved for a request is the key that clientIdType ip resolves for *)
(* the same request.                                                       *)

C37_UnknownModeAsClaimed ==
    (/\ probe # Unprobed
     /\ probe.key # <<>>
     /\ probe.config.clientIdType \notin KnownModes)
    => probe.key[1] = getClientId(probe.req, [clientIdType |-> "ip"])

----------------------------------------------------------------------------
(* C38: under ip, api-key and user-id the key resolved for a request is    *)
(* the first candidate, in the documented order, that is a non-empty       *)
(* string, and the literal of the mode when there is none; resolving it    *)
(* leaves the service as it was.                                           *)
(*   ip:      the peer address, the first comma-separated entry of the     *)
(*            forwarded-for header without the whitespace around it, the   *)
(*            real-ip header, the remote address; "127.0.0.1"              *)
(*   api-key: the API-key header, the bearer token of the authorization    *)
(*            header, which is what follows the prefix "Bearer " of a      *)
(*            header that begins with it; "anonymous-api"                  *)
(*   user-id: the authenticated user id, the x-user-id header, the         *)
(*            user-id header; "anonymous-user"                             *)

Max(S) == CHOOSE x \in S : \A y \in S : y <= x

\* The part of a header value before its first comma.
FirstEntry(h) ==
    CHOOSE e \in {SubSeq(h, 1, n) : n \in 0..Len(h)} :
       /\ \A i \in 1..Len(e) : e[i] # ","
       /\ Len(e) = Len(h) \/ h[Len(e) + 1] = ","

\* From the first to the last character that is not whitespace.
Unpadded(e) ==
    LET inner == {k \in 1..Len(e) : e[k] \notin Whitespace}
    IN  IF inner = {} THEN <<>> ELSE SubSeq(e, Min(inner), Max(inner))

\* The bearer token of an authorization header value: what follows the
\* prefix "Bearer " of a value that begins with it; a value of another
\* scheme carries none.
BearerToken(h) ==
    IF Len(h) >= Len(BearerPrefix) /\ SubSeq(h, 1, Len(BearerPrefix)) = BearerPrefix
    THEN SubSeq(h, Len(BearerPrefix) + 1, Len(h))
    ELSE <<>>

\* f applied to a header that is there.
Of(header, f(_)) == IF header = Undefined THEN Undefined ELSE Str(f(header[1]))

ForwardedEntry(h) == Unpadded(FirstEntry(h))

\* The candidates of a mode, in the documented order.
Candidates(req, mode) ==
    CASE mode = "ip" ->
            <<req.ip, Of(req.xForwardedFor, ForwardedEntry), req.xRealIp,
              req.remoteAddress>>
      [] mode = "api-key" ->
            <<req.xApiKey, Of(req.authorization, BearerToken)>>
      [] mode = "user-id" ->
            <<req.userId, req.xUserIdHeader, req.userIdHeader>>

Fallback(mode) ==
    CASE mode = "ip" -> Loopback
      [] mode = "api-key" -> AnonymousApi
      [] mode = "user-id" -> AnonymousUser

\* The first candidate that is a non-empty string, else the fallback.
FirstNonEmpty(candidates, fallback) ==
    LET hits == {k \in 1..Len(candidates) :
                    candidates[k] # Undefined /\ Len(candidates[k][1]) > 0}
    IN  IF hits = {} THEN fallback ELSE candidates[Min(hits)][1]

C38_ResolutionOrderAsClaimed ==
    /\ Constructed
    /\ (/\ probe # Unprobed
        /\ probe.key # <<>>
        /\ probe.config.clientIdType \in KnownModes)
       => probe.key[1] =
             FirstNonEmpty(Candidates(probe.req, probe.config.clientIdType),
                           Fallback(probe.config.clientIdType))

----------------------------------------------------------------------------
(* C39: a timeWindow made of a positive integer n and a unit parses to     *)
(* n * 1000 (s), n * 60000 (m), n * 3600000 (h) or n * 86400000 (d)        *)
(* milliseconds, and every other timeWindow, of unknown unit or of a       *)
(* quantity that is not a number, parses to exactly 60000 ms, a number.    *)

UnitMs(unit) ==
    CASE unit = "s" -> 1000
      [] unit = "m" -> 60000
      [] unit = "h" -> 3600000
      [] unit = "d" -> 86400000

\* A string of digits only that denotes a positive integer, then a unit.
PositiveWithUnit(timeWindow) ==
    /\ Len(timeWindow) >= 2
    /\ LastChar(timeWindow) \in {"s", "m", "h", "d"}
    /\ \A i \in 1..(Len(timeWindow) - 1) : timeWindow[i] \in Digits
    /\ \E i \in 1..(Len(timeWindow) - 1) : timeWindow[i] # "0"

\* The number a string of digits denotes.
Denoted(digits) == DigitsValue(digits, Len(digits), 10)

C39_ParseDefaultAsClaimed ==
    (probe # Unprobed /\ probe.windowMs # <<>>) =>
       LET timeWindow == probe.timeWindow
           ms == probe.windowMs[1]
       IN  IF PositiveWithUnit(timeWindow)
           THEN /\ ~ms.nan
                /\ ms.val = Denoted(DropLast(timeWindow)) * UnitMs(LastChar(timeWindow))
           ELSE ~ms.nan /\ ms.val = DefaultWindowMs

====
